---- MODULE Spec2Model ----
(***************************************************************************)
(* A model of the music-library domain objects of main.py and utils.py:    *)
(* Content and Collection objects with their derived fields, the           *)
(* serialize/deserialize pair of every entity, the polymorphic helper      *)
(* deserialize_union, and the JSON and XML file handlers.                  *)
(*                                                                         *)
(* Python values are represented as follows.                               *)
(*   - a str is a TLA+ string; None in a str-typed slot is NoneStr;        *)
(*   - a list is a sequence; an Optional[list] argument is NoneArg or      *)
(*     Some(list);                                                         *)
(*   - an Enum member is the string "Class.MEMBER", its .value is looked   *)
(*     up in the class's table;                                            *)
(*   - a timedelta is an integer number of milliseconds;                   *)
(*   - an object's identity is its field ref, the name of its cell of      *)
(*     `heap`; a list holding the object holds the record, and a mutation  *)
(*     of the object rewrites the record wherever it is held;              *)
(*   - a value tree (what serialize returns and the file handlers move)    *)
(*     is a record tagged by its field k: see TNull, TBool, TInt, TStr,      *)
(*     TList and TDict below;                                              *)
(*   - a call that may raise returns Ok(value) or Err(exception name).     *)
(***************************************************************************)
EXTENDS Integers, Sequences, FiniteSets, TLC

VARIABLES
    heap,        \* the Content objects alive in the process, by reference
    coll,        \* the Collection object under observation
    hash_order,  \* the iteration order of this process's sets (str and Enum hashes)
    last,        \* the last call made on the collection: its name, result and exception
    edits,       \* the number of mutations made so far to Content objects
    batch,       \* deserialize_union: the wrapped records handed to the call
    candidates,  \* deserialize_union: the candidate classes handed to the call
    resolved,    \* deserialize_union: whether it was called, and what it returned or raised
    entities,    \* file handlers: the objects handed to save
    json_file,   \* the .json file: whether it exists, and its text
    xml_file,    \* the .xml file: whether it exists, and its document
    loaded_json, \* JSONFileHandler.load: whether it was called, and what it returned or raised
    loaded_xml,  \* XMLFileHandler.load: whether it was called, and what it returned or raised
    person,      \* the Person object under observation (a User, an Artist or an Admin)
    outside,     \* a list object held by the caller, and the attribute of person it is, if any
    module_globals, \* the names bound at module level in main.py
    person_last, \* the last call made on the person: its name, argument and exception
    person_calls, \* the number of calls made so far on the person
    rebuild_cls, \* deserialize: the class it is called on
    rebuild_tree, \* deserialize: the tree handed to the call
    rebuilt,     \* deserialize: whether it was called, and what it returned or raised
    player,      \* the MusicPlayer object under observation
    clock,       \* time.time(), in ms
    player_last, \* the last call made on the player: its name, argument and exception
    player_calls \* the number of calls made so far on the player

collectionVars == <<heap, coll, last, edits>>
unionVars == <<batch, candidates, resolved>>
codecVars == <<entities, json_file, xml_file, loaded_json, loaded_xml>>
personVars == <<person, outside, module_globals, person_last, person_calls>>
rebuildVars == <<rebuild_cls, rebuild_tree, rebuilt>>
playerVars == <<player, clock, player_last, player_calls>>
vars == <<heap, coll, hash_order, last, edits, batch, candidates, resolved,
          entities, json_file, xml_file, loaded_json, loaded_xml,
          person, outside, module_globals, person_last, person_calls,
          rebuild_cls, rebuild_tree, rebuilt,
          player, clock, player_last, player_calls>>

----------------------------------------------------------------------------
(* Bounds of the model.                                                    *)

\* the longest contents list a collection is driven to
MaxLen == 2
\* the number of mutations of Content objects in one run
MaxEdits == 1
\* the longest list of objects handed to a file handler's save
MaxEntities == 2
\* the number of calls made on a MusicPlayer, or on an Admin, in one run
MaxCalls == 3
\* the number of calls made on a User or an Artist in one run
MaxPersonCalls == 2
\* the longest batch of wrapped records handed to deserialize_union
MaxBatch == 2

----------------------------------------------------------------------------
(* Python values.                                                          *)

NoneStr == "<None>"
NoneArg == <<>>
\* None where an object is expected
NoneObj == [cls |-> "NoneType"]
Some(v) == <<v>>

\* `x or []` for an Optional[list] argument x
OrEmpty(x) == IF x = NoneArg \/ x = Some(<<>>) THEN <<>> ELSE x[1]

Range(s) == {s[i] : i \in DOMAIN s}

Ok(v) == [ok |-> TRUE, val |-> v]
Err(e) == [ok |-> FALSE, err |-> e]

\* True when every element of a sequence of results is Ok
AllOk(rs) == \A i \in DOMAIN rs : rs[i].ok
\* The first exception of a sequence of results (a comprehension stops at it)
FirstErr(rs) == rs[CHOOSE i \in DOMAIN rs : ~rs[i].ok /\ \A j \in 1..(i - 1) : rs[j].ok]
Vals(rs) == [i \in DOMAIN rs |-> rs[i].val]

\* list.remove(x): the list without the first occurrence of x
RemoveFirst(s, x) ==
    LET i == CHOOSE j \in DOMAIN s : s[j] = x /\ \A m \in 1..(j - 1) : s[m] # x
    IN  SubSeq(s, 1, i - 1) \o SubSeq(s, i + 1, Len(s))

\* list.pop(index) accepts -len <= index < len; the position popped, from 1
PopInRange(s, index) == -Len(s) <= index /\ index < Len(s)
PopPos(s, index) == IF index < 0 THEN Len(s) + index + 1 ELSE index + 1
RemoveAt(s, p) == SubSeq(s, 1, p - 1) \o SubSeq(s, p + 1, Len(s))

\* int(x) of a quotient: truncation toward zero
TruncDiv(a, b) == IF a >= 0 THEN a \div b ELSE -((-a) \div b)

----------------------------------------------------------------------------
(* Value trees.                                                            *)

TNull == [k |-> "null"]
TBool(b) == [k |-> "bool", b |-> b]
TInt(n) == [k |-> "int", n |-> n]
TStr(s) == [k |-> "str", s |-> s]
\* a float, in thousandths
TFloat(m) == [k |-> "float", m |-> m]
TList(items) == [k |-> "list", items |-> items]
\* a dict keeps its insertion order: a sequence of <<key, value>> pairs
TDict(pairs) == [k |-> "dict", pairs |-> pairs]

StrList(s) == TList([i \in DOMAIN s |-> TStr(s[i])])

HasKey(d, key) == \E i \in DOMAIN d.pairs : d.pairs[i][1] = key
\* dict.get(key, default)
Get(d, key, default) ==
    IF HasKey(d, key)
    THEN d.pairs[CHOOSE i \in DOMAIN d.pairs : d.pairs[i][1] = key][2]
    ELSE default
\* dict.update(other) for keys that are new to the dict
DictUpdate(d, other) == TDict(d.pairs \o other.pairs)

\* a str-or-None slot filled from a tree
PyStr(t) == IF t.k = "str" THEN t.s ELSE NoneStr
StrTree(s) == IF s = NoneStr THEN TNull ELSE TStr(s)
\* an Optional[list of str] argument filled from a tree
PyStrList(t) == IF t.k = "list" THEN Some([i \in DOMAIN t.items |-> PyStr(t.items[i])]) ELSE NoneArg

----------------------------------------------------------------------------
(* Enum classes: member -> value.                                          *)

TrackGenre ==
    [m \in {"TrackGenre.ROCK", "TrackGenre.POP"} |->
        IF m = "TrackGenre.ROCK" THEN "rock" ELSE "pop"]

AudioBookGenre ==
    [m \in {"AudioBookGenre.COMEDY", "AudioBookGenre.TECH"} |->
        IF m = "AudioBookGenre.COMEDY" THEN "comedy" ELSE "tech"]

\* Enum(value): the member with that value, or ValueError
EnumOf(enum, value) ==
    IF \E m \in DOMAIN enum : enum[m] = value
    THEN Ok(CHOOSE m \in DOMAIN enum : enum[m] = value)
    ELSE Err("ValueError")

\* genre.value for a member of either genre class
GenreValue(m) == IF m \in DOMAIN TrackGenre THEN TrackGenre[m] ELSE AudioBookGenre[m]

\* [Enum(g) for g in data.get(key, [])]: TypeError when the value is None
EnumList(enum, t) ==
    IF t.k # "list" THEN Err("TypeError")
    ELSE LET rs == [i \in DOMAIN t.items |-> EnumOf(enum, PyStr(t.items[i]))]
         IN  IF AllOk(rs) THEN Ok(Vals(rs)) ELSE FirstErr(rs)

----------------------------------------------------------------------------
(* Content, Track and AudioBookChapter.  A Content object is a record; the  *)
(* attributes a class does not define (genres and producer_ids outside      *)
(* Track, narrator_ids outside AudioBookChapter) are kept empty and are     *)
(* never read for that class: see HasAttr.                                  *)

\* hasattr(obj, name) for the attributes the collections probe
HasAttr(obj, name) ==
    CASE name = "collaborator_ids" -> obj.cls \in {"Content", "Track", "AudioBookChapter"}
      [] name = "genres" -> obj.cls = "Track"
      [] OTHER -> FALSE

Content_init(content_id, title, duration, creator_id, collaborator_ids, source_id) ==
    [ref |-> NoneStr, cls |-> "Content", content_id |-> content_id, title |-> title,
     duration |-> duration, creator_id |-> creator_id,
     collaborator_ids |-> OrEmpty(collaborator_ids), source_id |-> source_id,
     genres |-> <<>>, producer_ids |-> <<>>, narrator_ids |-> <<>>]

Track_init(track_id, title, genres, duration, artist_id, collaborator_ids, producer_ids, album_id) ==
    [Content_init(track_id, title, duration, artist_id, collaborator_ids, album_id)
        EXCEPT !.cls = "Track", !.genres = genres, !.producer_ids = OrEmpty(producer_ids)]

AudioBookChapter_init(chapter_id, title, duration, author_id, audio_book_id, collaborator_ids, narrator_ids) ==
    [Content_init(chapter_id, title, duration, author_id, collaborator_ids, audio_book_id)
        EXCEPT !.cls = "AudioBookChapter",
               !.narrator_ids = IF OrEmpty(narrator_ids) = <<>> THEN <<author_id>>
                                ELSE OrEmpty(narrator_ids)]

\* int(self._duration.total_seconds())
DurationSeconds(duration) == TruncDiv(duration, 1000)

Content_serialize(self) ==
    TDict(<< <<"id", StrTree(self.content_id)>>,
             <<"title", StrTree(self.title)>>,
             <<"duration", TInt(DurationSeconds(self.duration))>>,
             <<"creator_id", StrTree(self.creator_id)>>,
             <<"collaborator_ids", StrList(self.collaborator_ids)>>,
             <<"source_id", StrTree(self.source_id)>> >>)

Track_serialize(self) ==
    DictUpdate(Content_serialize(self),
        TDict(<< <<"genres", StrList([i \in DOMAIN self.genres |-> GenreValue(self.genres[i])])>>,
                 <<"producer_ids", StrList(self.producer_ids)>> >>))

AudioBookChapter_serialize(self) ==
    DictUpdate(Content_serialize(self),
        TDict(<< <<"narrator_ids", StrList(self.narrator_ids)>> >>))

\* obj.serialize(): dispatch on the object's class
ContentSerialize(self) ==
    CASE self.cls = "Track" -> Track_serialize(self)
      [] self.cls = "AudioBookChapter" -> AudioBookChapter_serialize(self)
      [] OTHER -> Content_serialize(self)

\* timedelta(seconds=data.get("duration", 0)): TypeError unless a number
DurationOf(data) ==
    LET t == Get(data, "duration", TInt(0))
    IN  IF t.k = "int" THEN Ok(t.n * 1000)
        ELSE IF t.k = "float" THEN Ok(t.m)
        ELSE Err("TypeError")

Content_deserialize(data) ==
    IF data.k # "dict" THEN Err("AttributeError")
    ELSE IF ~DurationOf(data).ok THEN DurationOf(data)
    ELSE Ok(Content_init(PyStr(Get(data, "id", TNull)), PyStr(Get(data, "title", TNull)),
                DurationOf(data).val, PyStr(Get(data, "creator_id", TNull)),
                PyStrList(Get(data, "collaborator_ids", TList(<<>>))),
                PyStr(Get(data, "source_id", TNull))))

Track_deserialize(data) ==
    IF data.k # "dict" THEN Err("AttributeError")
    ELSE LET genres == EnumList(TrackGenre, Get(data, "genres", TList(<<>>)))
         IN  IF ~genres.ok THEN genres
             ELSE IF ~DurationOf(data).ok THEN DurationOf(data)
             ELSE Ok(Track_init(PyStr(Get(data, "id", TNull)), PyStr(Get(data, "title", TNull)),
                        genres.val, DurationOf(data).val,
                        PyStr(Get(data, "creator_id", TNull)),
                        PyStrList(Get(data, "collaborator_ids", TList(<<>>))),
                        PyStrList(Get(data, "producer_ids", TList(<<>>))),
                        PyStr(Get(data, "source_id", TNull))))

AudioBookChapter_deserialize(data) ==
    IF data.k # "dict" THEN Err("AttributeError")
    ELSE IF ~DurationOf(data).ok THEN DurationOf(data)
    ELSE Ok(AudioBookChapter_init(PyStr(Get(data, "id", TNull)), PyStr(Get(data, "title", TNull)),
                DurationOf(data).val, PyStr(Get(data, "creator_id", TNull)),
                PyStr(Get(data, "source_id", TNull)),
                PyStrList(Get(data, "collaborator_ids", TList(<<>>))),
                PyStrList(Get(data, "narrator_ids", TList(<<>>)))))

----------------------------------------------------------------------------
(* Collection, Album, Playlist and AudioBook.  The methods take `self` with *)
(* its contents resolved to the Content objects they refer to.              *)

\* list(a_set): the members of S in this process's iteration order
ListOfSet(S, order) == SelectSeq(order, LAMBDA x : x \in S)

RECURSIVE Flatten(_)
Flatten(ss) == IF ss = <<>> THEN <<>> ELSE Head(ss) \o Flatten(Tail(ss))

\* refresh_collaborator_ids collecting into a list instead of a set
refresh_collaborator_ids_list(self) ==
    [self EXCEPT !.collaborator_ids =
        Flatten([i \in DOMAIN self.contents |-> self.contents[i].collaborator_ids])]

\* refresh_collaborator_ids collecting only the ids the collection does not list yet
refresh_collaborator_ids_new_only(self) ==
    LET new_collaborator_ids ==
            UNION {Range(content.collaborator_ids) : content \in Range(self.contents)}
    IN  [self EXCEPT !.collaborator_ids =
            ListOfSet(new_collaborator_ids \ Range(self.collaborator_ids), hash_order.ids)]

refresh_collaborator_ids(self) ==
    LET new_collaborator_ids ==
            UNION {Range(content.collaborator_ids) :
                     content \in {c \in Range(self.contents) : HasAttr(c, "collaborator_ids")}}
    IN  [self EXCEPT !.collaborator_ids = ListOfSet(new_collaborator_ids, hash_order.ids)]

\* Album.refresh_genres, Playlist.refresh_genres and AudioBook.refresh_genres are the same code
refresh_genres(self) ==
    LET new_genres ==
            UNION {Range(track.genres) :
                     track \in {c \in Range(self.contents) : HasAttr(c, "genres")}}
    IN  [self EXCEPT !.genres = ListOfSet(new_genres, hash_order.genres)]

Collection_update(self) == refresh_collaborator_ids(self)

\* Album.update, Playlist.update and AudioBook.update are the same code
Album_update(self) == refresh_genres(refresh_collaborator_ids(self))

\* self.update(): dispatch on the object's class
update(self) == IF self.cls = "Collection" THEN Collection_update(self) ELSE Album_update(self)

Collection_init(collection_id, title, contents, creator_id, collaborator_ids) ==
    [cls |-> "Collection", collection_id |-> collection_id, title |-> title,
     contents |-> contents, creator_id |-> creator_id,
     collaborator_ids |-> OrEmpty(collaborator_ids), genres |-> <<>>]

\* self._genres = genres or []; if not self._genres: self.refresh_genres()
InitGenres(self, genres) ==
    IF OrEmpty(genres) = <<>> THEN refresh_genres(self)
    ELSE [self EXCEPT !.genres = OrEmpty(genres)]

Album_init(album_id, title, tracks, artist_id, collaborator_ids, genres) ==
    InitGenres([Collection_init(album_id, title, tracks, artist_id, collaborator_ids)
                    EXCEPT !.cls = "Album"], genres)

Playlist_init(playlist_id, title, tracks, owner_id, genres) ==
    InitGenres([Collection_init(playlist_id, title, tracks, owner_id, NoneArg)
                    EXCEPT !.cls = "Playlist"], genres)

AudioBook_init(audiobook_id, title, chapters, author_id, genres) ==
    InitGenres([Collection_init(audiobook_id, title, chapters, author_id, NoneArg)
                    EXCEPT !.cls = "AudioBook"], genres)

Collection_serialize(self) ==
    TDict(<< <<"id", StrTree(self.collection_id)>>,
             <<"title", StrTree(self.title)>>,
             <<"contents", TList([i \in DOMAIN self.contents |-> ContentSerialize(self.contents[i])])>>,
             <<"creator_id", StrTree(self.creator_id)>>,
             <<"collaborator_ids", StrList(self.collaborator_ids)>> >>)

\* Album.serialize, Playlist.serialize and AudioBook.serialize are the same code
Album_serialize(self) ==
    DictUpdate(Collection_serialize(self),
        TDict(<< <<"genres", StrList([i \in DOMAIN self.genres |-> GenreValue(self.genres[i])])>> >>))

\* obj.serialize(): dispatch on the object's class
CollectionSerialize(self) ==
    IF self.cls = "Collection" THEN Collection_serialize(self) ELSE Album_serialize(self)

\* cls.deserialize(data) for a Content class named cls
ContentDeserialize(cls, data) ==
    CASE cls = "Track" -> Track_deserialize(data)
      [] cls = "AudioBookChapter" -> AudioBookChapter_deserialize(data)
      [] OTHER -> Content_deserialize(data)

\* [cls.deserialize(c) for c in data.get("contents", [])]: TypeError when the value is None
ContentsOf(data, cls) ==
    LET t == Get(data, "contents", TList(<<>>))
    IN  IF t.k # "list" THEN Err("TypeError")
        ELSE LET rs == [i \in DOMAIN t.items |-> ContentDeserialize(cls, t.items[i])]
             IN  IF AllOk(rs) THEN Ok(Vals(rs)) ELSE FirstErr(rs)

Collection_deserialize(data) ==
    IF data.k # "dict" THEN Err("AttributeError")
    ELSE LET contents == ContentsOf(data, "Content")
         IN  IF ~contents.ok THEN contents
             ELSE Ok(Collection_init(PyStr(Get(data, "id", TNull)), PyStr(Get(data, "title", TNull)),
                        contents.val, PyStr(Get(data, "creator_id", TNull)),
                        PyStrList(Get(data, "collaborator_ids", TList(<<>>)))))

Album_deserialize(data) ==
    IF data.k # "dict" THEN Err("AttributeError")
    ELSE LET tracks == ContentsOf(data, "Track")
             genres == EnumList(TrackGenre, Get(data, "genres", TList(<<>>)))
         IN  IF ~tracks.ok THEN tracks
             ELSE IF ~genres.ok THEN genres
             ELSE Ok(Album_init(PyStr(Get(data, "id", TNull)), PyStr(Get(data, "title", TNull)),
                        tracks.val, PyStr(Get(data, "creator_id", TNull)),
                        PyStrList(Get(data, "collaborator_ids", TList(<<>>))),
                        Some(genres.val)))

Playlist_deserialize(data) ==
    IF data.k # "dict" THEN Err("AttributeError")
    ELSE LET tracks == ContentsOf(data, "Track")
             genres == EnumList(TrackGenre, Get(data, "genres", TList(<<>>)))
         IN  IF ~tracks.ok THEN tracks
             ELSE IF ~genres.ok THEN genres
             ELSE Ok(Playlist_init(PyStr(Get(data, "id", TNull)), PyStr(Get(data, "title", TNull)),
                        tracks.val, PyStr(Get(data, "creator_id", TNull)),
                        Some(genres.val)))

AudioBook_deserialize(data) ==
    IF data.k # "dict" THEN Err("AttributeError")
    ELSE LET chapters == ContentsOf(data, "AudioBookChapter")
             genres == EnumList(AudioBookGenre, Get(data, "genres", TList(<<>>)))
         IN  IF ~chapters.ok THEN chapters
             ELSE IF ~genres.ok THEN genres
             ELSE Ok(AudioBook_init(PyStr(Get(data, "id", TNull)), PyStr(Get(data, "title", TNull)),
                        chapters.val, PyStr(Get(data, "creator_id", TNull)),
                        Some(genres.val)))

\* isinstance(x, Content)
IsContent(x) == x.cls \in {"Content", "Track", "AudioBookChapter"}

\* a method's outcome: the object after the call, the value returned, the exception raised
Returned(self, ret) == [self |-> self, ret |-> ret, exc |-> ""]
Raised(self, exc) == [self |-> self, ret |-> NoneStr, exc |-> exc]

\* Collection.contents setter: validate_list, then the assignment
contents_setter(self, value) ==
    IF \E i \in DOMAIN value : ~IsContent(value[i])
    THEN Raised(self, "InvalidElementTypeError")
    ELSE Returned([self EXCEPT !.contents = value], NoneStr)

add_content(self, content) ==
    Returned(update([self EXCEPT !.contents = Append(@, content)]), NoneStr)

\* list.remove raises ValueError when the item is absent
remove_content(self, content) ==
    IF content \in Range(self.contents)
    THEN Returned(update([self EXCEPT !.contents = RemoveFirst(@, content)]), NoneStr)
    ELSE Raised(self, "ValueError")

\* pop_content without its except clause
pop_content_uncaught(self, index) ==
    IF PopInRange(self.contents, index)
    THEN LET p == PopPos(self.contents, index)
         IN  Returned(update([self EXCEPT !.contents = RemoveAt(@, p)]), self.contents[p].ref)
    ELSE Raised(self, "IndexError")

\* try: pop, update, return content; except IndexError: return None
pop_content(self, index) ==
    IF PopInRange(self.contents, index)
    THEN LET p == PopPos(self.contents, index)
         IN  Returned(update([self EXCEPT !.contents = RemoveAt(@, p)]), self.contents[p].ref)
    ELSE Returned(self, NoneStr)

----------------------------------------------------------------------------
(* deserialize_union.  A candidate class is named by its __name__; the      *)
(* entity classes have a deserialize classmethod, an Enum class has none.   *)

EntityClasses ==
    {"Content", "Track", "AudioBookChapter", "Collection", "Album", "Playlist", "AudioBook"}

\* hasattr(item_type, "deserialize")
HasDeserialize(cls) == cls \in EntityClasses

\* cls.deserialize(data) for any class named cls: defined below, after the classes
RECURSIVE Deserialize(_, _)

\* item_type.deserialize(item_data) for a Content or Collection class
ClassDeserialize(cls, data) ==
    CASE cls = "Collection" -> Collection_deserialize(data)
      [] cls = "Album" -> Album_deserialize(data)
      [] cls = "Playlist" -> Playlist_deserialize(data)
      [] cls = "AudioBook" -> AudioBook_deserialize(data)
      [] OTHER -> ContentDeserialize(cls, data)

\* item.get("type"): the tag, None when the record has none
TagOf(item) == PyStr(Get(item, "type", TNull))

\* deserialize_union whose loop ends at the first unknown tag
RECURSIVE union_loop_break(_, _, _)
union_loop_break(data, type_names, result) ==
    IF data = <<>> THEN Ok(result)
    ELSE LET item == Head(data)
             item_type_name == TagOf(item)
             item_data == Get(item, "data", TNull)
         IN  IF item_type_name \notin type_names THEN Ok(result)
             ELSE IF ~HasDeserialize(item_type_name)
                  THEN union_loop_break(Tail(data), type_names, result)
             ELSE LET entity == ClassDeserialize(item_type_name, item_data)
                  IN  IF ~entity.ok THEN entity
                      ELSE union_loop_break(Tail(data), type_names, Append(result, entity.val))

deserialize_union_break(data, types) == union_loop_break(data, Range(types), <<>>)

\* deserialize_union without its hasattr check
RECURSIVE union_loop_unchecked(_, _, _)
union_loop_unchecked(data, type_names, result) ==
    IF data = <<>> THEN Ok(result)
    ELSE LET item == Head(data)
             item_type_name == TagOf(item)
             item_data == Get(item, "data", TNull)
         IN  IF item_type_name \notin type_names
             THEN union_loop_unchecked(Tail(data), type_names, result)
             ELSE IF ~HasDeserialize(item_type_name) THEN Err("AttributeError")
             ELSE LET entity == ClassDeserialize(item_type_name, item_data)
                  IN  IF ~entity.ok THEN entity
                      ELSE union_loop_unchecked(Tail(data), type_names, Append(result, entity.val))

deserialize_union_unchecked(data, types) == union_loop_unchecked(data, Range(types), <<>>)

\* the for loop of deserialize_union: an exception of deserialize leaves the function
RECURSIVE union_loop(_, _, _)
union_loop(data, type_names, result) ==
    IF data = <<>> THEN Ok(result)
    ELSE LET item == Head(data)
             item_type_name == TagOf(item)
             item_data == Get(item, "data", TNull)
         IN  IF item_type_name \notin type_names
             THEN union_loop(Tail(data), type_names, result)
             ELSE IF ~HasDeserialize(item_type_name)
                  THEN union_loop(Tail(data), type_names, result)
             ELSE LET entity == Deserialize(item_type_name, item_data)
                  IN  IF ~entity.ok THEN entity
                      ELSE union_loop(Tail(data), type_names, Append(result, entity.val))

deserialize_union(data, types) == union_loop(data, Range(types), <<>>)

----------------------------------------------------------------------------
(* JSON text.  A document is a sequence of tokens: the punctuation marks,   *)
(* the literals null, true and false, numbers written in decimal digits,    *)
(* quoted strings, and the line breaks and indentation json.dump writes     *)
(* when it is given an indent.                                              *)

Punct(c) == [t |-> c]
Ws == [t |-> "ws"]
Literal(name) == [t |-> name]
Number(neg, digits) == [t |-> "number", neg |-> neg, digits |-> digits]
Quoted(s) == [t |-> "string", s |-> s]
\* a number written with a decimal point: the digits before it and after it
Fraction(neg, digits, frac) == [t |-> "number", neg |-> neg, digits |-> digits, frac |-> frac]
\* text that is no JSON, as a str
RawText(text) == [k |-> "str", s |-> "<text>", raw |-> text]

RECURSIVE IntToDigits(_)
IntToDigits(n) == IF n < 10 THEN <<n>> ELSE Append(IntToDigits(n \div 10), n % 10)

RECURSIVE DigitsToInt(_)
DigitsToInt(ds) ==
    IF ds = <<>> THEN 0 ELSE 10 * DigitsToInt(SubSeq(ds, 1, Len(ds) - 1)) + ds[Len(ds)]

\* the digits after the decimal point of float.__repr__: no trailing zeros, at least one digit
RECURSIVE StripZeros(_)
StripZeros(ds) ==
    IF Len(ds) > 1 /\ ds[Len(ds)] = 0 THEN StripZeros(SubSeq(ds, 1, Len(ds) - 1)) ELSE ds

FracToDigits(f) == StripZeros(<<f \div 100, (f \div 10) % 10, f % 10>>)

\* the thousandths written by the digits after a decimal point
DigitsToFrac(ds) ==
    (IF Len(ds) >= 1 THEN 100 * ds[1] ELSE 0) + (IF Len(ds) >= 2 THEN 10 * ds[2] ELSE 0)
    + (IF Len(ds) >= 3 THEN ds[3] ELSE 0)

Abs(n) == IF n < 0 THEN -n ELSE n

\* json.dumps of a value that is no list and no dict
ScalarTokens(value) ==
    CASE value.k = "null" -> <<Literal("null")>>
      [] value.k = "bool" -> <<Literal(IF value.b THEN "true" ELSE "false")>>
      [] value.k = "int" -> <<Number(value.n < 0, IntToDigits(IF value.n < 0 THEN -value.n ELSE value.n))>>
      [] value.k = "float" ->
           <<Fraction(value.m < 0, IntToDigits(Abs(value.m) \div 1000), FracToDigits(Abs(value.m) % 1000))>>
      [] OTHER -> <<Quoted(value.s)>>

\* json.dumps that leaves out the dict entries whose value is None
RECURSIVE json_dumps_skip_none(_)
json_dumps_skip_none(value) ==
    CASE value.k = "list" ->
           IF value.items = <<>> THEN <<Punct("["), Punct("]")>>
           ELSE <<Punct("[")>>
                \o Flatten([i \in DOMAIN value.items |->
                      (IF i = 1 THEN <<Ws>> ELSE <<Punct(","), Ws>>)
                      \o json_dumps_skip_none(value.items[i])])
                \o <<Ws, Punct("]")>>
      [] value.k = "dict" ->
           LET kept == SelectSeq(value.pairs, LAMBDA pr : pr[2].k # "null")
           IN  IF kept = <<>> THEN <<Punct("{"), Punct("}")>>
               ELSE <<Punct("{")>>
                    \o Flatten([i \in DOMAIN kept |->
                          (IF i = 1 THEN <<Ws>> ELSE <<Punct(","), Ws>>)
                          \o <<Quoted(kept[i][1]), Punct(":")>>
                          \o json_dumps_skip_none(kept[i][2])])
                    \o <<Ws, Punct("}")>>
      [] OTHER -> ScalarTokens(value)

\* json.dump(value, file, indent=DEFAULT_FILE_INDENT, ensure_ascii=False)
RECURSIVE json_dumps(_)
json_dumps(value) ==
    CASE value.k = "list" ->
           IF value.items = <<>> THEN <<Punct("["), Punct("]")>>
           ELSE <<Punct("[")>>
                \o Flatten([i \in DOMAIN value.items |->
                      (IF i = 1 THEN <<Ws>> ELSE <<Punct(","), Ws>>)
                      \o json_dumps(value.items[i])])
                \o <<Ws, Punct("]")>>
      [] value.k = "dict" ->
           IF value.pairs = <<>> THEN <<Punct("{"), Punct("}")>>
           ELSE <<Punct("{")>>
                \o Flatten([i \in DOMAIN value.pairs |->
                      (IF i = 1 THEN <<Ws>> ELSE <<Punct(","), Ws>>)
                      \o <<Quoted(value.pairs[i][1]), Punct(":")>>
                      \o json_dumps(value.pairs[i][2])])
                \o <<Ws, Punct("}")>>
      [] OTHER -> ScalarTokens(value)

\* the position of the first token at or after p that is no white space
RECURSIVE SkipWs(_, _)
SkipWs(toks, p) == IF p <= Len(toks) /\ toks[p] = Ws THEN SkipWs(toks, p + 1) ELSE p

\* d[key] = value on a dict under construction: a repeated key keeps its place
SetKey(pairs, key, value) ==
    IF \E i \in DOMAIN pairs : pairs[i][1] = key
    THEN [i \in DOMAIN pairs |-> IF pairs[i][1] = key THEN <<key, value>> ELSE pairs[i]]
    ELSE Append(pairs, <<key, value>>)

Parsed(value, pos) == [ok |-> TRUE, val |-> value, pos |-> pos]
DecodeError == [ok |-> FALSE, err |-> "JSONDecodeError"]

\* the JSON decoder: the value that starts at position p, and where it ends
RECURSIVE ParseValue(_, _), ParseItems(_, _, _), ParseMembers(_, _, _)
ParseValue(toks, p0) ==
    LET p == SkipWs(toks, p0)
    IN  IF p > Len(toks) THEN DecodeError
        ELSE LET tok == toks[p]
             IN  CASE tok.t = "null" -> Parsed(TNull, p + 1)
                   [] tok.t = "true" -> Parsed(TBool(TRUE), p + 1)
                   [] tok.t = "false" -> Parsed(TBool(FALSE), p + 1)
                   [] tok.t = "number" /\ "frac" \in DOMAIN tok ->
                        LET m == 1000 * DigitsToInt(tok.digits) + DigitsToFrac(tok.frac)
                        IN  Parsed(TFloat(IF tok.neg THEN -m ELSE m), p + 1)
                   [] tok.t = "number" ->
                        Parsed(TInt(IF tok.neg THEN -DigitsToInt(tok.digits)
                                    ELSE DigitsToInt(tok.digits)), p + 1)
                   [] tok.t = "string" -> Parsed(TStr(tok.s), p + 1)
                   [] tok.t = "[" ->
                        LET q == SkipWs(toks, p + 1)
                        IN  IF q <= Len(toks) /\ toks[q].t = "]" THEN Parsed(TList(<<>>), q + 1)
                            ELSE ParseItems(toks, q, <<>>)
                   [] tok.t = "{" ->
                        LET q == SkipWs(toks, p + 1)
                        IN  IF q <= Len(toks) /\ toks[q].t = "}" THEN Parsed(TDict(<<>>), q + 1)
                            ELSE ParseMembers(toks, q, <<>>)
                   [] OTHER -> DecodeError

ParseItems(toks, p, items) ==
    LET item == ParseValue(toks, p)
    IN  IF ~item.ok THEN item
        ELSE LET q == SkipWs(toks, item.pos)
             IN  IF q > Len(toks) THEN DecodeError
                 ELSE IF toks[q].t = "]" THEN Parsed(TList(Append(items, item.val)), q + 1)
                 ELSE IF toks[q].t = "," THEN ParseItems(toks, q + 1, Append(items, item.val))
                 ELSE DecodeError

ParseMembers(toks, p0, pairs) ==
    LET p == SkipWs(toks, p0)
    IN  IF p + 1 > Len(toks) \/ toks[p].t # "string" \/ toks[p + 1].t # ":" THEN DecodeError
        ELSE LET member == ParseValue(toks, p + 2)
             IN  IF ~member.ok THEN member
                 ELSE LET q == SkipWs(toks, member.pos)
                          now == SetKey(pairs, toks[p].s, member.val)
                      IN  IF q > Len(toks) THEN DecodeError
                          ELSE IF toks[q].t = "}" THEN Parsed(TDict(now), q + 1)
                          ELSE IF toks[q].t = "," THEN ParseMembers(toks, q + 1, now)
                          ELSE DecodeError

\* json.load(file) and json.loads(text): one value and nothing after it
json_loads(toks) ==
    LET r == ParseValue(toks, 1)
    IN  IF ~r.ok THEN Err("JSONDecodeError")
        ELSE IF SkipWs(toks, r.pos) <= Len(toks) THEN Err("JSONDecodeError")
        ELSE Ok(r.val)

----------------------------------------------------------------------------
(* XML documents.  An element is its tag, its text and its children; the    *)
(* text is a sequence of JSON tokens, empty when the element has no text.   *)

Element(tag, text, children) == [tag |-> tag, text |-> text, children |-> children]

\* XMLFileHandler._serialize_value on a fresh element with this tag
RECURSIVE _serialize_value(_, _)
_serialize_value(tag, value) ==
    CASE value.k = "dict" ->
           Element(tag, <<>>, [i \in DOMAIN value.pairs |->
                                  _serialize_value(value.pairs[i][1], value.pairs[i][2])])
      [] value.k = "list" ->
           Element(tag, <<>>, [i \in DOMAIN value.items |->
                                  _serialize_value("item", value.items[i])])
      [] OTHER ->
           Element(tag, IF value.k = "null" THEN <<>> ELSE ScalarTokens(value), <<>>)

\* toprettyxml: an element with children gets line breaks and indentation as text
RECURSIVE toprettyxml(_)
toprettyxml(elem) ==
    IF elem.children = <<>> THEN elem
    ELSE Element(elem.tag, <<Ws>>, [i \in DOMAIN elem.children |-> toprettyxml(elem.children[i])])

\* str.strip() on an element's text
RECURSIVE strip(_)
strip(text) ==
    IF text = <<>> THEN text
    ELSE IF Head(text) = Ws THEN strip(Tail(text))
    ELSE IF text[Len(text)] = Ws THEN strip(SubSeq(text, 1, Len(text) - 1))
    ELSE text

RECURSIVE DictOf(_, _)
DictOf(pairs, data) ==
    IF pairs = <<>> THEN data
    ELSE DictOf(Tail(pairs), SetKey(data, Head(pairs)[1], Head(pairs)[2]))

RECURSIVE _deserialize_element(_)
_deserialize_element(elem) ==
    IF elem.children = <<>>
    THEN LET text == strip(elem.text)
         IN  IF text = <<>> THEN TNull
             ELSE IF json_loads(text).ok THEN json_loads(text).val
             ELSE RawText(text)
    ELSE IF \A i \in DOMAIN elem.children : elem.children[i].tag = "item"
    THEN TList([i \in DOMAIN elem.children |-> _deserialize_element(elem.children[i])])
    ELSE TDict(DictOf([i \in DOMAIN elem.children |->
                          <<elem.children[i].tag, _deserialize_element(elem.children[i])>>], <<>>))

----------------------------------------------------------------------------
(* Strings as the validators see them.  A str is a TLA+ string; Chars      *)
(* gives its characters, for the strings the model hands to a setter or a   *)
(* constructor.                                                             *)

Texts ==
    {<<>>, <<" ">>, <<" ", " ">>, <<"u", "s", "r">>, <<"o", "t", "h", "e", "r">>,
     <<"A", "n", "n">>, <<"a", "@", "b", ".", "c">>, <<"a", "@", "b">>,
     <<"a", ".", "b", "@", "c">>, <<" ", "a", "@", "b", ".", "c", " ">>,
     <<"a", "@", "b", ".", "c", "@", "d">>, <<"a", "@", "b", "@", "c", ".", "d">>,
     <<"@", ".">>, <<"a", "b">>}

\* "".join(chars)
RECURSIVE Join(_)
Join(cs) == IF cs = <<>> THEN "" ELSE Head(cs) \o Join(Tail(cs))

\* list(s)
Chars(s) == CHOOSE cs \in Texts : Join(cs) = s

\* str.strip()
RECURSIVE str_strip(_)
str_strip(cs) ==
    IF cs = <<>> THEN cs
    ELSE IF Head(cs) = " " THEN str_strip(Tail(cs))
    ELSE IF cs[Len(cs)] = " " THEN str_strip(SubSeq(cs, 1, Len(cs) - 1))
    ELSE cs

\* c in s, for a one-character c
Contains(cs, c) == \E i \in DOMAIN cs : cs[i] = c

\* s.split(sep), for a one-character sep: the pieces between the separators
RECURSIVE split(_, _)
split(cs, sep) ==
    IF ~Contains(cs, sep) THEN <<cs>>
    ELSE LET i == CHOOSE j \in DOMAIN cs : cs[j] = sep /\ \A h \in 1..(j - 1) : cs[h] # sep
         IN  <<SubSeq(cs, 1, i - 1)>> \o split(SubSeq(cs, i + 1, Len(cs)), sep)

\* validate_str(value, field_name): value is a Python value
validate_str(value) ==
    IF value.k # "str" THEN Err("InvalidTypeError")
    ELSE IF str_strip(Chars(value.s)) = <<>> THEN Err("EmptyValueError")
    ELSE Ok(value.s)

\* errors.py: the exception classes that derive from DataError
DataErrors ==
    {"DataError", "EmptyValueError", "InvalidTypeError", "InvalidElementTypeError",
     "CustomIndexError"}

----------------------------------------------------------------------------
(* Person, Admin, User and Artist: the constructors and serialize.          *)

Permission ==
    [m \in {"Permission.VIEW_USERS", "Permission.EDIT_USERS", "Permission.BAN_USERS",
            "Permission.SEE_ANALYTICS", "Permission.INVITE_ADMINS"} |->
        CASE m = "Permission.VIEW_USERS" -> "view_users"
          [] m = "Permission.EDIT_USERS" -> "edit_users"
          [] m = "Permission.BAN_USERS" -> "ban_users"
          [] m = "Permission.SEE_ANALYTICS" -> "see_analytics"
          [] OTHER -> "invite_admins"]

Person_init(person_id, name, email) ==
    [cls |-> "Person", person_id |-> person_id, name |-> name, email |-> email]

Admin_init(admin_id, name, email, permissions) ==
    [cls |-> "Admin", person_id |-> admin_id, name |-> name, email |-> email,
     permissions |-> OrEmpty(permissions)]

User_init(user_id, name, email, subscribed, playlists, favourite_tracks, favourite_albums, favourite_artists, favourite_audiobooks) ==
    [cls |-> "User", person_id |-> user_id, name |-> name, email |-> email,
     subscribed |-> subscribed, playlists |-> OrEmpty(playlists),
     favourite_tracks |-> OrEmpty(favourite_tracks),
     favourite_albums |-> OrEmpty(favourite_albums),
     favourite_artists |-> OrEmpty(favourite_artists),
     favourite_audiobooks |-> OrEmpty(favourite_audiobooks)]

Artist_init(artist_id, name, email, tracks, albums, collabed_tracks, collabed_albums, produced_tracks) ==
    [cls |-> "Artist", person_id |-> artist_id, name |-> name, email |-> email,
     tracks |-> OrEmpty(tracks), albums |-> OrEmpty(albums),
     collabed_tracks |-> OrEmpty(collabed_tracks),
     collabed_albums |-> OrEmpty(collabed_albums),
     produced_tracks |-> OrEmpty(produced_tracks)]

\* Person.person_id setter
person_id_setter(self, value) ==
    IF value.k # "str" THEN Raised(self, "InvalidTypeError")
    ELSE IF str_strip(Chars(value.s)) = <<>> THEN Raised(self, "EmptyValueError")
    ELSE Returned([self EXCEPT !.person_id = value.s], NoneStr)

\* Person.name setter
name_setter(self, value) ==
    IF ~validate_str(value).ok THEN Raised(self, validate_str(value).err)
    ELSE Returned([self EXCEPT !.name = value.s], NoneStr)

\* the email setter with no test of the part after the last "@"
email_setter_at_only(self, value) ==
    IF ~validate_str(value).ok THEN Raised(self, validate_str(value).err)
    ELSE IF ~Contains(Chars(value.s), "@") THEN Raised(self, "DataError")
    ELSE Returned([self EXCEPT !.email = value.s], NoneStr)

\* Person.email setter
email_setter(self, value) ==
    IF ~validate_str(value).ok THEN Raised(self, validate_str(value).err)
    ELSE LET pieces == split(Chars(value.s), "@")
         IN  IF ~Contains(Chars(value.s), "@") \/ ~Contains(pieces[Len(pieces)], ".")
             THEN Raised(self, "DataError")
             ELSE Returned([self EXCEPT !.email = value.s], NoneStr)

\* User.subscribed setter
subscribed_setter(self, value) ==
    IF value.k # "bool" THEN Raised(self, "InvalidTypeError")
    ELSE Returned([self EXCEPT !.subscribed = value], NoneStr)

\* an object of a class outside the model's classes, here a str
JunkStr == [cls |-> "str", s |-> "junk"]

\* User.playlists setter: validate_list(value, "playlists", Playlist), then
\* the assignment of the caller's list
playlists_setter(self, value) ==
    IF \E i \in DOMAIN value : value[i].cls # "Playlist"
    THEN Raised(self, "InvalidElementTypeError")
    ELSE Returned([self EXCEPT !.playlists = value], NoneStr)

add_favourite_artist(self, favourite_artist) ==
    IF favourite_artist.cls # "Artist" THEN Raised(self, "InvalidTypeError")
    ELSE IF favourite_artist \in Range(self.favourite_artists) THEN Returned(self, NoneObj)
    ELSE Returned([self EXCEPT !.favourite_artists = Append(@, favourite_artist)], NoneObj)

\* list.pop(index) raises IndexError on an empty list too; the method catches it
pop_favourite_artist(self, index) ==
    IF self.favourite_artists = <<>> THEN Returned(self, NoneObj)
    ELSE IF PopInRange(self.favourite_artists, index)
    THEN LET p == PopPos(self.favourite_artists, index)
         IN  Returned([self EXCEPT !.favourite_artists = RemoveAt(@, p)], self.favourite_artists[p])
    ELSE Returned(self, NoneObj)

add_favourite_audiobook(self, favourite_audiobook) ==
    IF favourite_audiobook.cls # "AudioBook" THEN Raised(self, "InvalidTypeError")
    ELSE IF favourite_audiobook \in Range(self.favourite_audiobooks) THEN Returned(self, NoneObj)
    ELSE Returned([self EXCEPT !.favourite_audiobooks = Append(@, favourite_audiobook)], NoneObj)

\* the emptiness test reads _favourite_artists, the pop reads _favourite_audiobooks
pop_favourite_audiobook(self, index) ==
    IF self.favourite_artists = <<>> THEN Returned(self, NoneObj)
    ELSE IF PopInRange(self.favourite_audiobooks, index)
    THEN LET p == PopPos(self.favourite_audiobooks, index)
         IN  Returned([self EXCEPT !.favourite_audiobooks = RemoveAt(@, p)],
                      self.favourite_audiobooks[p])
    ELSE Returned(self, NoneObj)

add_playlist(self, playlist) ==
    IF playlist.cls # "Playlist" THEN Raised(self, "InvalidTypeError")
    ELSE IF playlist \in Range(self.playlists) THEN Returned(self, NoneStr)
    ELSE Returned([self EXCEPT !.playlists = Append(@, playlist)], NoneStr)

\* Artist.tracks setter: validate_list(value, "tracks", Union[Track, AudioBookChapter])
tracks_setter(self, value) ==
    IF \E i \in DOMAIN value : value[i].cls \notin {"Track", "AudioBookChapter"}
    THEN Raised(self, "InvalidElementTypeError")
    ELSE Returned([self EXCEPT !.tracks = value], NoneStr)

add_track(self, track) ==
    IF track.cls \notin {"Track", "AudioBookChapter"} THEN Raised(self, "InvalidTypeError")
    ELSE IF track \in Range(self.tracks) THEN Returned(self, NoneStr)
    ELSE Returned([self EXCEPT !.tracks = Append(@, track)], NoneStr)

add_album(self, album) ==
    IF album.cls \notin {"Album", "AudioBook"} THEN Raised(self, "InvalidTypeError")
    ELSE IF album \in Range(self.albums) THEN Returned(self, NoneStr)
    ELSE Returned([self EXCEPT !.albums = Append(@, album)], NoneStr)

\* Artist.add_collabed_track: the raise statement evaluates type(track), and
\* `track` is not a name of the method: it is looked up in the module's
\* globals, where it is bound only once the __main__ block has run
add_collabed_track(self, collabed_track, globals) ==
    IF collabed_track.cls \notin {"Track", "AudioBookChapter"}
    THEN IF "track" \in globals THEN Raised(self, "InvalidTypeError")
         ELSE Raised(self, "NameError")
    ELSE IF collabed_track \in Range(self.collabed_tracks) THEN Returned(self, NoneStr)
    ELSE Returned([self EXCEPT !.collabed_tracks = Append(@, collabed_track)], NoneStr)

\* add_permission with no test for a permission already in the list
add_permission_again(self, permission) ==
    IF permission \notin DOMAIN Permission THEN Raised(self, "InvalidTypeError")
    ELSE Returned([self EXCEPT !.permissions = Append(@, permission)], NoneStr)

add_permission(self, permission) ==
    IF permission \notin DOMAIN Permission THEN Raised(self, "InvalidTypeError")
    ELSE IF permission \in Range(self.permissions) THEN Returned(self, NoneStr)
    ELSE Returned([self EXCEPT !.permissions = Append(@, permission)], NoneStr)

remove_permission(self, permission) ==
    IF permission \notin DOMAIN Permission THEN Raised(self, "InvalidTypeError")
    ELSE IF permission \in Range(self.permissions)
    THEN Returned([self EXCEPT !.permissions = RemoveFirst(@, permission)], NoneStr)
    ELSE Returned(self, NoneStr)

\* try: return self._permissions.pop(index); except IndexError: return None
pop_permission(self, index) ==
    IF self.permissions = <<>> THEN Returned(self, NoneStr)
    ELSE IF PopInRange(self.permissions, index)
    THEN LET p == PopPos(self.permissions, index)
         IN  Returned([self EXCEPT !.permissions = RemoveAt(@, p)], self.permissions[p])
    ELSE Returned(self, NoneStr)

Person_serialize(self) ==
    TDict(<< <<"id", StrTree(self.person_id)>>, <<"name", StrTree(self.name)>>,
             <<"email", StrTree(self.email)>> >>)

Admin_serialize(self) ==
    DictUpdate(Person_serialize(self),
        TDict(<< <<"permissions", StrList([i \in DOMAIN self.permissions |->
                                              Permission[self.permissions[i]]])>> >>))

\* {"type": type(x).__name__, "data": x.serialize()}
Wrap(tag, data) == TDict(<< <<"type", TStr(tag)>>, <<"data", data>> >>)

WrapContents(xs) == TList([i \in DOMAIN xs |-> Wrap(xs[i].cls, ContentSerialize(xs[i]))])
WrapCollections(xs) == TList([i \in DOMAIN xs |-> Wrap(xs[i].cls, CollectionSerialize(xs[i]))])

Artist_serialize(self) ==
    DictUpdate(Person_serialize(self),
        TDict(<< <<"tracks", WrapContents(self.tracks)>>,
                 <<"albums", WrapCollections(self.albums)>>,
                 <<"collabed_tracks", WrapContents(self.collabed_tracks)>>,
                 <<"collabed_albums", WrapCollections(self.collabed_albums)>>,
                 <<"produced_tracks", WrapContents(self.produced_tracks)>> >>))

User_serialize(self) ==
    DictUpdate(Person_serialize(self),
        TDict(<< <<"subscribed", self.subscribed>>,
                 <<"playlists", TList([i \in DOMAIN self.playlists |->
                                          Album_serialize(self.playlists[i])])>>,
                 <<"favourite_tracks", TList([i \in DOMAIN self.favourite_tracks |->
                                          Track_serialize(self.favourite_tracks[i])])>>,
                 <<"favourite_albums", TList([i \in DOMAIN self.favourite_albums |->
                                          Album_serialize(self.favourite_albums[i])])>>,
                 <<"favourite_artists", TList([i \in DOMAIN self.favourite_artists |->
                                          Artist_serialize(self.favourite_artists[i])])>>,
                 <<"favourite_audiobooks", TList([i \in DOMAIN self.favourite_audiobooks |->
                                          Album_serialize(self.favourite_audiobooks[i])])>> >>))

\* [cls.deserialize(x) for x in data.get(key, [])]: TypeError when the value is None
DeserializeList(data, key, cls) ==
    LET t == Get(data, key, TList(<<>>))
    IN  IF t.k # "list" THEN Err("TypeError")
        ELSE LET rs == [i \in DOMAIN t.items |-> Deserialize(cls, t.items[i])]
             IN  IF AllOk(rs) THEN Ok(Vals(rs)) ELSE FirstErr(rs)

\* deserialize_union(data.get(key, []), types): TypeError when the value is None
DeserializeUnion(data, key, types) ==
    LET t == Get(data, key, TList(<<>>))
    IN  IF t.k # "list" THEN Err("TypeError") ELSE deserialize_union(t.items, types)

\* Person.deserialize reads data["id"], data["name"] and data["email"]
Person_deserialize(data) ==
    IF data.k # "dict" THEN Err("TypeError")
    ELSE IF ~HasKey(data, "id") \/ ~HasKey(data, "name") \/ ~HasKey(data, "email") THEN Err("KeyError")
    ELSE Ok(Person_init(PyStr(Get(data, "id", TNull)), PyStr(Get(data, "name", TNull)),
                        PyStr(Get(data, "email", TNull))))

Admin_deserialize(data) ==
    IF data.k # "dict" THEN Err("AttributeError")
    ELSE LET permissions == EnumList(Permission, Get(data, "permissions", TList(<<>>)))
         IN  IF ~permissions.ok THEN permissions
             ELSE Ok(Admin_init(PyStr(Get(data, "id", TNull)), PyStr(Get(data, "name", TNull)),
                                PyStr(Get(data, "email", TNull)), Some(permissions.val)))

Artist_deserialize(data) ==
    IF data.k # "dict" THEN Err("AttributeError")
    ELSE LET tracks == DeserializeUnion(data, "tracks", <<"Track", "AudioBookChapter">>)
             albums == DeserializeUnion(data, "albums", <<"Album", "AudioBook">>)
             collabed_tracks == DeserializeUnion(data, "collabed_tracks", <<"Track", "AudioBookChapter">>)
             collabed_albums == DeserializeUnion(data, "collabed_albums", <<"Album", "AudioBook">>)
             produced_tracks == DeserializeUnion(data, "produced_tracks", <<"Track", "AudioBookChapter">>)
             rs == <<tracks, albums, collabed_tracks, collabed_albums, produced_tracks>>
         IN  IF ~AllOk(rs) THEN FirstErr(rs)
             ELSE Ok(Artist_init(PyStr(Get(data, "id", TNull)), PyStr(Get(data, "name", TNull)),
                                 PyStr(Get(data, "email", TNull)), Some(tracks.val), Some(albums.val),
                                 Some(collabed_tracks.val), Some(collabed_albums.val),
                                 Some(produced_tracks.val)))

\* [Artist.deserialize(artist) for artist in data.get("favourite_artists", [])]
ArtistsOf(data) ==
    LET t == Get(data, "favourite_artists", TList(<<>>))
    IN  IF t.k # "list" THEN Err("TypeError")
        ELSE LET rs == [i \in DOMAIN t.items |-> Deserialize("Artist", t.items[i])]
             IN  IF AllOk(rs) THEN Ok(Vals(rs)) ELSE FirstErr(rs)

User_deserialize(data) ==
    IF data.k # "dict" THEN Err("AttributeError")
    ELSE LET playlists == DeserializeList(data, "playlists", "Playlist")
             favourite_tracks == DeserializeList(data, "favourite_tracks", "Track")
             favourite_albums == DeserializeList(data, "favourite_albums", "Album")
             favourite_artists == ArtistsOf(data)
             favourite_audiobooks == DeserializeList(data, "favourite_audiobooks", "AudioBook")
             rs == <<playlists, favourite_tracks, favourite_albums, favourite_artists,
                     favourite_audiobooks>>
         IN  IF ~AllOk(rs) THEN FirstErr(rs)
             ELSE Ok(User_init(PyStr(Get(data, "id", TNull)), PyStr(Get(data, "name", TNull)),
                               PyStr(Get(data, "email", TNull)), Get(data, "subscribed", TNull),
                               Some(playlists.val), Some(favourite_tracks.val),
                               Some(favourite_albums.val), Some(favourite_artists.val),
                               Some(favourite_audiobooks.val)))

----------------------------------------------------------------------------
(* MusicPlayer.  The slots that hold a bool or a number hold a Python       *)
(* value (TBool, TInt, TFloat or TNull for None); a slot that holds an      *)
(* object holds the object or NoneObj; the position is a timedelta in ms.   *)

RepeatModeValues ==
    [m \in {"RepeatModeValues.NONE", "RepeatModeValues.ONE", "RepeatModeValues.ALL"} |->
        CASE m = "RepeatModeValues.NONE" -> "none"
          [] m = "RepeatModeValues.ONE" -> "one"
          [] OTHER -> "all"]

MusicPlayer_init(music_player_id, user, current_track, current_playlist, is_playing, volume, current_track_position, shuffle_mode, repeat_mode, playback_speed, history, start_time) ==
    [cls |-> "MusicPlayer", music_player_id |-> music_player_id, user |-> user,
     current_track |-> current_track, current_playlist |-> current_playlist,
     is_playing |-> is_playing, volume |-> volume,
     current_track_position |-> current_track_position, shuffle_mode |-> shuffle_mode,
     repeat_mode |-> repeat_mode, playback_speed |-> playback_speed,
     history |-> OrEmpty(history), start_time |-> start_time]

\* MusicPlayer.serialize: AttributeError when the user, the current track or
\* the current playlist is None
MusicPlayer_serialize(self) ==
    IF self.user = NoneObj \/ self.current_track = NoneObj \/ self.current_playlist = NoneObj
    THEN Err("AttributeError")
    ELSE Ok(TDict(<< <<"music_player_id", StrTree(self.music_player_id)>>,
                     <<"user", User_serialize(self.user)>>,
                     <<"current_track", ContentSerialize(self.current_track)>>,
                     <<"current_playlist", CollectionSerialize(self.current_playlist)>>,
                     <<"is_playing", self.is_playing>>,
                     <<"volume", self.volume>>,
                     <<"current_track_position", TFloat(self.current_track_position)>>,
                     <<"shuffle_mode", self.shuffle_mode>>,
                     <<"repeat_mode", TStr(RepeatModeValues[self.repeat_mode])>>,
                     <<"playback_speed", self.playback_speed>>,
                     <<"history", WrapContents(self.history)>>,
                     <<"start_time", self.start_time>> >>))

\* timedelta(seconds=data.get("current_track_position", 0)): TypeError unless a number
PositionOf(data) ==
    LET t == Get(data, "current_track_position", TInt(0))
    IN  IF t.k = "int" THEN Ok(t.n * 1000)
        ELSE IF t.k = "float" THEN Ok(t.m)
        ELSE Err("TypeError")

MusicPlayer_deserialize(data) ==
    IF data.k # "dict" THEN Err("AttributeError")
    ELSE LET history == DeserializeUnion(data, "history", <<"Track", "AudioBookChapter">>)
             user == Deserialize("User", Get(data, "user", TNull))
             current_track == Deserialize("Track", Get(data, "current_track", TNull))
             current_playlist == Deserialize("Playlist", Get(data, "current_playlist", TNull))
             position == PositionOf(data)
             repeat_mode == EnumOf(RepeatModeValues, PyStr(Get(data, "repeat_mode", TNull)))
             rs == <<history, user, current_track, current_playlist, position, repeat_mode>>
         IN  IF ~AllOk(rs) THEN FirstErr(rs)
             ELSE Ok(MusicPlayer_init(PyStr(Get(data, "music_player_id", TNull)), user.val,
                        current_track.val, current_playlist.val, Get(data, "is_playing", TNull),
                        Get(data, "volume", TNull), position.val, Get(data, "shuffle_mode", TNull),
                        repeat_mode.val, Get(data, "playback_speed", TNull), Some(history.val),
                        Get(data, "start_time", TNull)))

\* bool(x) of a Python value or of an object slot
Truthy(v) ==
    CASE v.k = "bool" -> v.b
      [] v.k = "int" -> v.n # 0
      [] v.k = "float" -> v.m # 0
      [] OTHER -> FALSE

IsNumber(v) == v.k \in {"int", "float"}
\* a number in thousandths
Milli(v) == IF v.k = "int" THEN 1000 * v.n ELSE v.m

load_playlist(self, playlist) ==
    Returned([self EXCEPT !.current_playlist = playlist,
                          !.current_track = IF playlist.contents # <<>> THEN playlist.contents[1]
                                            ELSE NoneObj,
                          !.is_playing = TBool(FALSE),
                          !.current_track_position = 0,
                          !.history = <<>>], NoneStr)

\* play that starts even when there is nothing to play
play_anything(self, track, now) ==
    Returned([self EXCEPT !.current_track = IF track # NoneObj THEN track ELSE @,
                          !.is_playing = TBool(TRUE),
                          !.start_time = TFloat(now)], NoneStr)

\* play(track) at time now; track is NoneObj when the argument is left out
play(self, track, now) ==
    LET current_track == IF track # NoneObj THEN track ELSE self.current_track
    IN  IF current_track = NoneObj THEN Returned(self, NoneStr)
        ELSE Returned([self EXCEPT !.current_track = current_track,
                                   !.is_playing = TBool(TRUE),
                                   !.start_time = TFloat(now)], NoneStr)

\* pause() at time now: TypeError when start_time or playback_speed is no number
pause(self, now) ==
    IF ~Truthy(self.is_playing) THEN Returned(self, NoneStr)
    ELSE IF ~IsNumber(self.start_time) \/ ~IsNumber(self.playback_speed) THEN Raised(self, "TypeError")
    ELSE LET elapsed == TruncDiv((now - Milli(self.start_time)) * Milli(self.playback_speed), 1000)
         IN  Returned([self EXCEPT !.current_track_position = @ + elapsed,
                                   !.is_playing = TBool(FALSE)], NoneStr)

stop(self) ==
    IF self.current_track = NoneObj THEN Returned(self, NoneStr)
    ELSE Returned([self EXCEPT !.is_playing = TBool(FALSE), !.current_track_position = 0], NoneStr)

\* list.index(x), from 0
IndexOf(s, x) == (CHOOSE i \in DOMAIN s : s[i] = x /\ \A j \in 1..(i - 1) : s[j] # x) - 1

\* next_track where repeat mode ONE gives way to the item shuffle picked
next_track_shuffle_wins(self, choice, now) ==
    IF self.current_playlist = NoneObj \/ self.current_playlist.contents = <<>>
    THEN Returned(self, NoneStr)
    ELSE LET playlist == self.current_playlist.contents
             known == self.current_track # NoneObj /\ self.current_track \in Range(playlist)
             self1 == IF known THEN self ELSE [self EXCEPT !.current_track = playlist[1]]
             current_index == IF known THEN IndexOf(playlist, self.current_track) ELSE 0
             next_index == (current_index + 1) % Len(playlist)
             next == IF Truthy(self.shuffle_mode) THEN playlist[choice]
                     ELSE IF self.repeat_mode = "RepeatModeValues.ONE" THEN self1.current_track
                     ELSE playlist[next_index + 1]
         IN  IF self.repeat_mode = "RepeatModeValues.NONE" /\ current_index = Len(playlist) - 1
             THEN stop(self1)
             ELSE play([self1 EXCEPT !.history = Append(@, self1.current_track)], next, now)

\* next_track() at time now; choice: the position random.choice picks, from 1
next_track(self, choice, now) ==
    IF self.current_playlist = NoneObj \/ self.current_playlist.contents = <<>>
    THEN Returned(self, NoneStr)
    ELSE LET playlist == self.current_playlist.contents
             known == self.current_track # NoneObj /\ self.current_track \in Range(playlist)
             self1 == IF known THEN self ELSE [self EXCEPT !.current_track = playlist[1]]
             current_index == IF known THEN IndexOf(playlist, self.current_track) ELSE 0
             next_index == (current_index + 1) % Len(playlist)
             picked == IF Truthy(self.shuffle_mode) THEN playlist[choice] ELSE playlist[next_index + 1]
             next == IF self.repeat_mode = "RepeatModeValues.ONE" THEN self1.current_track ELSE picked
         IN  IF self.repeat_mode = "RepeatModeValues.NONE" /\ current_index = Len(playlist) - 1
             THEN stop(self1)
             ELSE play([self1 EXCEPT !.history = Append(@, self1.current_track)], next, now)

\* previous_track that reads the last entry of the history and leaves it there
previous_track_keep(self, now) ==
    IF self.history = <<>> THEN Returned(self, NoneStr)
    ELSE play(self, self.history[Len(self.history)], now)

previous_track(self, now) ==
    IF self.history = <<>> THEN Returned(self, NoneStr)
    ELSE play([self EXCEPT !.history = SubSeq(@, 1, Len(@) - 1)], self.history[Len(self.history)], now)

\* set_volume that only caps the value
set_volume_capped(self, value) ==
    IF ~IsNumber(value) THEN Raised(self, "TypeError")
    ELSE Returned([self EXCEPT !.volume = IF Milli(value) < 1000 THEN value ELSE TFloat(1000)],
                  NoneStr)

\* max(0.0, min(1.0, value)): min and max return their first argument unless
\* the second is strictly smaller, or strictly greater
set_volume(self, value) ==
    IF ~IsNumber(value) THEN Raised(self, "TypeError")
    ELSE LET capped == IF Milli(value) < 1000 THEN value ELSE TFloat(1000)
         IN  Returned([self EXCEPT !.volume = IF Milli(capped) > 0 THEN capped ELSE TFloat(0)],
                      NoneStr)

toggle_shuffle_mod(self) ==
    Returned([self EXCEPT !.shuffle_mode = TBool(~Truthy(self.shuffle_mode))], NoneStr)

set_repeat_mode(self, mode) == Returned([self EXCEPT !.repeat_mode = mode], NoneStr)

set_playback_speed(self, speed) ==
    IF ~IsNumber(speed) THEN Raised(self, "TypeError")
    ELSE IF Milli(speed) <= 0 THEN Returned(self, NoneStr)
    ELSE Returned([self EXCEPT !.playback_speed = speed], NoneStr)

\* item.serialize(): dispatch on the object's class
Serialize(item) ==
    CASE item.cls = "MusicPlayer" -> MusicPlayer_serialize(item).val
      [] item.cls = "Admin" -> Admin_serialize(item)
      [] item.cls = "Person" -> Person_serialize(item)
      [] item.cls = "User" -> User_serialize(item)
      [] item.cls = "Artist" -> Artist_serialize(item)
      [] IsContent(item) -> ContentSerialize(item)
      [] OTHER -> CollectionSerialize(item)

\* cls.deserialize(data): dispatch on the class
Deserialize(cls, data) ==
    CASE cls = "MusicPlayer" -> MusicPlayer_deserialize(data)
      [] cls = "User" -> User_deserialize(data)
      [] cls = "Artist" -> Artist_deserialize(data)
      [] cls = "Admin" -> Admin_deserialize(data)
      [] cls = "Person" -> Person_deserialize(data)
      [] OTHER -> ClassDeserialize(cls, data)

\* JSONFileHandler.save with a json.dump that skips None entries
JSONFileHandler_save_skip_none(data) ==
    json_dumps_skip_none(TList([i \in DOMAIN data |-> Serialize(data[i])]))

\* JSONFileHandler.save: the text written to the file
JSONFileHandler_save(data) == json_dumps(TList([i \in DOMAIN data |-> Serialize(data[i])]))

\* JSONFileHandler.load on a file with this text
JSONFileHandler_load(text) == json_loads(text)

\* XMLFileHandler.save: the document written to the file
XMLFileHandler_save(data) ==
    toprettyxml(Element("data", <<>>,
        [i \in DOMAIN data |-> _serialize_value("item", Serialize(data[i]))]))

\* XMLFileHandler.load on a file with this document
XMLFileHandler_load(root) ==
    LET items == SelectSeq(root.children, LAMBDA child : child.tag = "item")
    IN  Ok(TList([i \in DOMAIN items |-> _deserialize_element(items[i])]))

----------------------------------------------------------------------------
(* The objects of a run.                                                    *)

Refs == {"t1", "t2", "ch1"}
CollaboratorIds == {"a", "b"}

InitHeap ==
    [r \in Refs |->
        CASE r = "t1" ->
               [Track_init("t1", "Midnight Echo", <<"TrackGenre.ROCK">>, 222000, "art",
                           Some(<<"a">>), Some(<<"p1", "p2">>), "alb") EXCEPT !.ref = r]
          [] r = "t2" ->
               [Track_init("t2", "Second", <<"TrackGenre.ROCK", "TrackGenre.POP">>, 1500, "art",
                           Some(<<"a", "b">>), NoneArg, NoneStr) EXCEPT !.ref = r]
          [] OTHER ->
               [AudioBookChapter_init("ch1", "Chapter 1", 1095000, "art", "abk",
                           Some(<<"b">>), Some(<<"n1", "n2">>)) EXCEPT !.ref = r]]

\* two hash seeds: one iterates sets in the order written here, the other in reverse
HashOrders ==
    {[ids |-> <<"a", "b">>, genres |-> <<"TrackGenre.ROCK", "TrackGenre.POP">>],
     [ids |-> <<"b", "a">>, genres |-> <<"TrackGenre.POP", "TrackGenre.ROCK">>]}

CollectionClasses == {"Collection", "Album", "Playlist", "AudioBook"}

\* the constructor call for a class, with the arguments that class accepts
New(cls, contents, collaborator_ids, genres) ==
    CASE cls = "Album" -> Album_init("alb", "Synthetic Dreams", contents, "art", collaborator_ids, genres)
      [] cls = "Playlist" -> Playlist_init("pl", "Night", contents, "usr", genres)
      [] cls = "AudioBook" -> AudioBook_init("abk", "Python", contents, "art", genres)
      [] OTHER -> Collection_init("col", "Collection", contents, "art", collaborator_ids)

\* the arguments the constructors are called with
ContentsArgs == {s \in {<<>>, <<InitHeap["t1"]>>, <<InitHeap["t2"], InitHeap["ch1"]>>} : Len(s) <= MaxLen}
CollaboratorArgs(cls) ==
    IF cls \in {"Collection", "Album"} THEN {NoneArg, Some(<<"b">>)} ELSE {NoneArg}
GenresArgs(cls) ==
    CASE cls = "Collection" -> {NoneArg}
      [] cls = "AudioBook" -> {NoneArg, Some(<<"AudioBookGenre.TECH">>)}
      [] OTHER -> {NoneArg, Some(<<"TrackGenre.POP">>)}

\* the lists handed to the setters
ContentsValues == {s \in {<<>>, <<"t2">>, <<"t1", "t1">>, <<"ch1", "t1">>} : Len(s) <= MaxLen}
CollaboratorValues == {<<"b", "b">>}
GenresValues == {<<"TrackGenre.POP">>}

\* a Track tree whose genres hold a value that is no TrackGenre
BadTrackTree ==
    TDict(<< <<"id", TStr("t9")>>, <<"title", TStr("Broken")>>, <<"duration", TInt(1)>>,
             <<"genres", StrList(<<"jazz">>)>> >>)

AlbumTree ==
    Album_serialize(Album_init("alb", "Synthetic Dreams", <<InitHeap["t1"]>>, "art",
                               Some(<<"a">>), Some(<<"TrackGenre.ROCK">>)))

\* the wrapped records a batch is made of
RecordPool ==
    {Wrap("Track", ContentSerialize(InitHeap["t1"])),
     Wrap("AudioBookChapter", ContentSerialize(InitHeap["ch1"])),
     Wrap("Album", AlbumTree),
     Wrap("Ghost", ContentSerialize(InitHeap["t2"])),
     Wrap("TrackGenre", TStr("rock")),
     Wrap("Track", BadTrackTree),
     TDict(<< <<"type", TStr("Track")>> >>),
     TDict(<< <<"data", ContentSerialize(InitHeap["t2"])>> >>)}

Batches == UNION {[1..n -> RecordPool] : n \in 0..MaxBatch}

\* the candidate lists of Artist.deserialize and MusicPlayer.deserialize, and one
\* that holds a class without deserialize
CandidateLists ==
    {<<"Track", "AudioBookChapter">>, <<"Album", "AudioBook">>, <<"Track", "TrackGenre">>}

NotCalled == [called |-> FALSE, out |-> Ok(<<>>)]

UnionIdle ==
    /\ batch = <<>>
    /\ candidates = <<>>
    /\ resolved = NotCalled

NoFile == [exists |-> FALSE, text |-> <<>>]
File(text) == [exists |-> TRUE, text |-> text]
NotLoaded == [called |-> FALSE, saved |-> FALSE, out |-> Ok(TList(<<>>))]

CodecIdle ==
    /\ entities = <<>>
    /\ json_file = NoFile
    /\ xml_file = NoFile
    /\ loaded_json = NotLoaded
    /\ loaded_xml = NotLoaded

\* no call made yet on an object
NoCall == [op |-> "__init__", arg |-> TNull, exc |-> ""]
\* a list object the caller holds: the attribute it came from or was assigned
\* to, its items, and whether it is the very list the object stores
NoList == [attr |-> NoneStr, items |-> <<>>, stored |-> FALSE]
HeldList(attr, items, stored) == [attr |-> attr, items |-> items, stored |-> stored]

PersonIdle ==
    /\ person = NoneObj
    /\ outside = NoList
    /\ module_globals = {}
    /\ person_last = NoCall
    /\ person_calls = 0

RebuildIdle ==
    /\ rebuild_cls = NoneStr
    /\ rebuild_tree = TNull
    /\ rebuilt = NotCalled

PlayerIdle ==
    /\ player = NoneObj
    /\ clock = 0
    /\ player_last = NoCall
    /\ player_calls = 0

\* the machines of the other classes are not in use
OthersIdle == PersonIdle /\ RebuildIdle /\ PlayerIdle

\* the record of a call; again: the call before it was the same operation
Call(op, arg, out) ==
    [op |-> op, arg |-> arg, ret |-> out.ret, exc |-> out.exc, again |-> last.op = op]

Init ==
    /\ heap = InitHeap
    /\ hash_order \in HashOrders
    /\ \E cls \in CollectionClasses :
         \E contents \in ContentsArgs, collaborator_ids \in CollaboratorArgs(cls), genres \in GenresArgs(cls) :
            coll = New(cls, contents, collaborator_ids, genres)
    /\ last = [op |-> "__init__", arg |-> 0, ret |-> NoneStr, exc |-> "", again |-> FALSE]
    /\ edits = 0
    /\ UnionIdle
    /\ CodecIdle
    /\ OthersIdle

----------------------------------------------------------------------------
(* Calls on the collection.                                                 *)

SetContents(value) ==
    LET out == contents_setter(coll, [i \in DOMAIN value |-> heap[value[i]]])
    IN  /\ coll' = out.self
        /\ last' = Call("contents", 0, out)
        /\ UNCHANGED <<heap, hash_order, edits, unionVars, codecVars, personVars, rebuildVars, playerVars>>

AddContent(r) ==
    /\ Len(coll.contents) < MaxLen
    /\ LET out == add_content(coll, heap[r])
       IN  /\ coll' = out.self
           /\ last' = Call("add_content", 0, out)
    /\ UNCHANGED <<heap, hash_order, edits, unionVars, codecVars, personVars, rebuildVars, playerVars>>

RemoveContent(r) ==
    LET out == remove_content(coll, heap[r])
    IN  /\ coll' = out.self
        /\ last' = Call("remove_content", 0, out)
        /\ UNCHANGED <<heap, hash_order, edits, unionVars, codecVars, personVars, rebuildVars, playerVars>>

PopContent(index) ==
    LET out == pop_content(coll, index)
    IN  /\ coll' = out.self
        /\ last' = Call("pop_content", index, out)
        /\ UNCHANGED <<heap, hash_order, edits, unionVars, codecVars, personVars, rebuildVars, playerVars>>

Update ==
    /\ coll' = update(coll)
    /\ last' = Call("update", 0, Returned(coll, NoneStr))
    /\ UNCHANGED <<heap, hash_order, edits, unionVars, codecVars, personVars, rebuildVars, playerVars>>

----------------------------------------------------------------------------
(* Calls on a Content object, which the collection may hold.                *)

\* the object is rewritten in its heap cell and in every list holding it
Rewrite(r, obj, op) ==
    /\ edits < MaxEdits
    /\ edits' = edits + 1
    /\ heap' = [heap EXCEPT ![r] = obj]
    /\ coll' = [coll EXCEPT !.contents =
                    [i \in DOMAIN @ |-> IF @[i].ref = r THEN obj ELSE @[i]]]
    /\ last' = Call(op, 0, Returned(coll, NoneStr))
    /\ UNCHANGED <<hash_order, unionVars, codecVars, personVars, rebuildVars, playerVars>>

\* a timedelta as a Python value, in milliseconds
TTimedelta(ms) == [k |-> "timedelta", ms |-> ms]

\* the duration setter with no test of the sign
duration_setter_unchecked(self, value) ==
    IF value.k # "timedelta" THEN Returned(self, NoneStr)
    ELSE Returned([self EXCEPT !.duration = value.ms], NoneStr)

\* Content.duration setter: prints and returns when the value is not a
\* timedelta or is negative, assigns otherwise
duration_setter(self, value) ==
    IF value.k # "timedelta" THEN Returned(self, NoneStr)
    ELSE IF value.ms < 0 THEN Returned(self, NoneStr)
    ELSE Returned([self EXCEPT !.duration = value.ms], NoneStr)

\* Content.collaborator_ids setter: validate_list(value, ..., str), then the assignment
collaborator_ids_setter(self, value) == [self EXCEPT !.collaborator_ids = value]

add_collaborator_id(self, collaborator_id) ==
    IF collaborator_id \in Range(self.collaborator_ids) THEN self
    ELSE [self EXCEPT !.collaborator_ids = Append(@, collaborator_id)]

\* Track.genres setter: validate_list(value, ..., TrackGenre), then the assignment
genres_setter(self, value) == [self EXCEPT !.genres = value]

add_genre(self, genre) ==
    IF genre \in Range(self.genres) THEN self
    ELSE [self EXCEPT !.genres = Append(@, genre)]

SetCollaboratorIds(r, value) == Rewrite(r, collaborator_ids_setter(heap[r], value), "Content.collaborator_ids")

AddCollaboratorId(r, id) == Rewrite(r, add_collaborator_id(heap[r], id), "Content.add_collaborator_id")

SetGenres(r, value) ==
    /\ heap[r].cls = "Track"
    /\ Rewrite(r, genres_setter(heap[r], value), "Track.genres")

AddGenre(r, genre) ==
    /\ heap[r].cls = "Track"
    /\ Rewrite(r, add_genre(heap[r], genre), "Track.add_genre")

Next ==
    \/ \E value \in ContentsValues : SetContents(value)
    \/ \E r \in Refs : AddContent(r)
    \/ \E r \in Refs : RemoveContent(r)
    \/ \E index \in -(MaxLen + 1)..(MaxLen + 1) : PopContent(index)
    \/ Update
    \/ \E r \in Refs, value \in CollaboratorValues : SetCollaboratorIds(r, value)
    \/ \E r \in Refs, id \in CollaboratorIds : AddCollaboratorId(r, id)
    \/ \E r \in Refs, value \in GenresValues : SetGenres(r, value)
    \/ \E r \in Refs, genre \in DOMAIN TrackGenre : AddGenre(r, genre)

Spec == Init /\ [][Next]_vars

----------------------------------------------------------------------------
(* Derived fields of a collection.                                          *)

NoDuplicates(s) == \A i, j \in DOMAIN s : i # j => s[i] # s[j]

\* the collaborator ids, and the genres, of the items now in contents
ItemCollaborators(self) == UNION {Range(self.contents[i].collaborator_ids) : i \in DOMAIN self.contents}
ItemGenres(self) == UNION {Range(self.contents[i].genres) : i \in DOMAIN self.contents}

CollaboratorsDerived(self) ==
    /\ NoDuplicates(self.collaborator_ids)
    /\ Range(self.collaborator_ids) = ItemCollaborators(self)

GenresDerived(self) == Range(self.genres) = ItemGenres(self)

\* C1: in every reachable state of a collection, collaborator_ids is duplicate-free
\* and is, as a set, the union of the collaborator_ids of the items in contents.
C1_CollaboratorIdsAlwaysDerived == CollaboratorsDerived(coll)

\* C2: in every reachable state of an Album, Playlist or AudioBook, genres is, as a
\* set, the union of the genres of the items in contents.
C2_GenresAlwaysDerived ==
    coll.cls \in {"Album", "Playlist", "AudioBook"} => GenresDerived(coll)

\* C3: right after a successful add_content, remove_content or pop_content, and
\* after update(), collaborator_ids is duplicate-free and set-equal to the union of
\* the items' collaborator_ids, and an Album's or Playlist's genres is set-equal to
\* the union of the items' genres.
C3_DerivedAfterMutation ==
    (/\ last.op \in {"add_content", "remove_content", "pop_content", "update"}
     /\ last.exc = ""
     /\ last.op = "pop_content" => last.ret # NoneStr)
    => /\ CollaboratorsDerived(coll)
       /\ coll.cls \in {"Album", "Playlist"} => GenresDerived(coll)

\* an Album whose two items list "a" and "a", "b" has just been added to
C3_Witness ==
    /\ last.op = "add_content"
    /\ coll.cls = "Album"
    /\ Len(coll.contents) = 2
    /\ \E i, j \in DOMAIN coll.contents :
         /\ coll.contents[i].collaborator_ids = <<"a">>
         /\ coll.contents[j].collaborator_ids = <<"a", "b">>
    /\ Range(coll.collaborator_ids) = {"a", "b"}

\* C4: update() directly after update() leaves collaborator_ids and genres, as
\* sets, and contents as the first update() left them.
C4_UpdateIdempotent ==
    [][(last.op = "update" /\ last'.op = "update")
        => /\ Range(coll'.collaborator_ids) = Range(coll.collaborator_ids)
           /\ Range(coll'.genres) = Range(coll.genres)
           /\ coll'.contents = coll.contents]_vars

\* a second update() in a row on a collection that has collaborators and genres
C4_Witness ==
    /\ last.op = "update"
    /\ last.again
    /\ coll.collaborator_ids # <<>>
    /\ coll.genres # <<>>

\* C5: pop_content with an index outside contents raises nothing, returns None and
\* leaves contents, collaborator_ids and genres as they were.
C5_PopOutOfRange ==
    [][(/\ last'.op = "pop_content"
        /\ (last'.arg >= Len(coll.contents) \/ last'.arg < -Len(coll.contents)))
        => /\ last'.exc = ""
           /\ last'.ret = NoneStr
           /\ coll' = coll]_vars

\* pop_content(0) was called on a collection without contents
C5_Witness ==
    /\ last.op = "pop_content"
    /\ last.arg = 0
    /\ last.ret = NoneStr
    /\ coll.contents = <<>>

----------------------------------------------------------------------------
(* A call of deserialize_union on a batch of wrapped records.               *)

InitUnion ==
    /\ heap = InitHeap
    /\ hash_order \in HashOrders
    /\ coll = New("Collection", <<>>, NoneArg, NoneArg)
    /\ last = [op |-> "__init__", arg |-> 0, ret |-> NoneStr, exc |-> "", again |-> FALSE]
    /\ edits = 0
    /\ batch \in Batches
    /\ candidates \in CandidateLists
    /\ resolved = NotCalled
    /\ CodecIdle
    /\ OthersIdle

Resolve ==
    /\ ~resolved.called
    /\ resolved' = [called |-> TRUE, out |-> deserialize_union(batch, candidates)]
    /\ UNCHANGED <<collectionVars, hash_order, batch, candidates, codecVars, personVars, rebuildVars, playerVars>>

NextUnion == Resolve

SpecUnion == InitUnion /\ [][NextUnion]_vars

\* the positions of the batch whose tag names a candidate class
Tagged(data, cands) == {i \in DOMAIN data : TagOf(data[i]) \in Range(cands)}

\* the record's candidate class rebuilds it: the class has a deserialize and it
\* does not fail on the record's data
Rebuilds(item) ==
    /\ HasDeserialize(TagOf(item))
    /\ ClassDeserialize(TagOf(item), Get(item, "data", TNull)).ok

\* the id of an entity of any class
EntityId(e) == IF IsContent(e) THEN e.content_id ELSE e.collection_id

\* out is one entity per position of keep, in the order of the batch, each of the
\* class its record's tag names and with its record's id
OnePerRecord(out, data, keep) ==
    /\ Len(out) = Cardinality(keep)
    /\ \A i \in keep :
         LET n == Cardinality({j \in keep : j <= i})
         IN  /\ out[n].cls = TagOf(data[i])
             /\ EntityId(out[n]) = PyStr(Get(Get(data[i], "data", TNull), "id", TNull))

\* C6: when the candidate class of every tagged record rebuilds it, deserialize_union
\* returns exactly one entity per record whose tag names a candidate class, in input
\* order and of the tagged class; records with an unknown tag are skipped and the
\* rest of the batch is still resolved.
C6_OneEntityPerKnownTag ==
    (/\ resolved.called
     /\ \A i \in Tagged(batch, candidates) : Rebuilds(batch[i]))
    => /\ resolved.out.ok
       /\ OnePerRecord(resolved.out.val, batch, Tagged(batch, candidates))

\* a batch of a record with an unknown tag followed by a Track record resolved to one Track
C6_Witness ==
    /\ resolved.called
    /\ Len(batch) = 2
    /\ TagOf(batch[1]) = "Ghost"
    /\ TagOf(batch[2]) = "Track"
    /\ candidates = <<"Track", "AudioBookChapter">>
    /\ resolved.out.ok
    /\ Len(resolved.out.val) = 1
    /\ resolved.out.val[1].cls = "Track"

\* C7 as claimed: a tagged record that its candidate class cannot rebuild (no
\* deserialize, or deserialize fails on its data) is dropped, and all the other
\* records of the batch are resolved and returned.
C7_UnbuildableRecordDropped ==
    resolved.called
    => /\ resolved.out.ok
       /\ OnePerRecord(resolved.out.val, batch,
                       {i \in Tagged(batch, candidates) : Rebuilds(batch[i])})

\* C7 as the code has it: a tagged record whose candidate class has no deserialize
\* is dropped and the other records are resolved and returned; a record whose
\* deserialize fails makes deserialize_union raise that exception, and no record
\* of the batch is returned.
C7_NoDeserializeDroppedFailureRaised ==
    resolved.called
    => LET callable == {i \in Tagged(batch, candidates) : HasDeserialize(TagOf(batch[i]))}
           failing == {i \in callable : ~Rebuilds(batch[i])}
       IN  IF failing = {}
           THEN /\ resolved.out.ok
                /\ OnePerRecord(resolved.out.val, batch, callable)
           ELSE /\ ~resolved.out.ok
                /\ resolved.out.err \in {"ValueError", "TypeError", "AttributeError"}

\* a record of a candidate class without deserialize was dropped and the Track
\* record after it was resolved
C7_Witness ==
    /\ resolved.called
    /\ candidates = <<"Track", "TrackGenre">>
    /\ Len(batch) = 2
    /\ TagOf(batch[1]) = "TrackGenre"
    /\ TagOf(batch[2]) = "Track"
    /\ resolved.out.ok
    /\ Len(resolved.out.val) = 1

----------------------------------------------------------------------------
(* The file handlers.  A run hands one list of objects to the handlers'     *)
(* save and reads the files back with load, in any order; load on a file    *)
(* that does not exist raises FileNotFoundError.                            *)

UntitledTrack ==
    Track_init("t3", "", <<"TrackGenre.POP">>, 60000, "art", Some(<<"a">>), Some(<<"p1">>), NoneStr)

SomeAlbum ==
    Album_init("alb", "Synthetic Dreams", <<InitHeap["t1"]>>, "art", Some(<<"a">>),
               Some(<<"TrackGenre.ROCK">>))

EmptyPlaylist == Playlist_init("pl", "Night", <<>>, "usr", Some(<<"TrackGenre.POP">>))

SomeAdmin ==
    Admin_init("adm", "Root", "root@example.com",
               Some(<<"Permission.VIEW_USERS", "Permission.BAN_USERS">>))

SomeArtist ==
    Artist_init("art", "Nova", "nova@example.com", Some(<<InitHeap["t1"], InitHeap["ch1"]>>),
                Some(<<SomeAlbum>>), NoneArg, NoneArg, Some(<<InitHeap["t1"]>>))

SomeUser ==
    User_init("usr", "Ann", "ann@example.com", TBool(TRUE), NoneArg, Some(<<InitHeap["t1"]>>),
              Some(<<SomeAlbum>>), Some(<<SomeArtist>>), NoneArg)

EntityPool ==
    {InitHeap["t1"], InitHeap["t2"], InitHeap["ch1"], UntitledTrack, SomeAlbum, EmptyPlaylist,
     SomeAdmin, SomeArtist, SomeUser}

EntityLists == UNION {[1..n -> EntityPool] : n \in 0..MaxEntities}

InitCodec ==
    /\ heap = InitHeap
    /\ hash_order \in HashOrders
    /\ coll = New("Collection", <<>>, NoneArg, NoneArg)
    /\ last = [op |-> "__init__", arg |-> 0, ret |-> NoneStr, exc |-> "", again |-> FALSE]
    /\ edits = 0
    /\ UnionIdle
    /\ OthersIdle
    /\ entities \in EntityLists
    /\ json_file = NoFile
    /\ xml_file = NoFile
    /\ loaded_json = NotLoaded
    /\ loaded_xml = NotLoaded

SaveJson ==
    /\ json_file' = File(JSONFileHandler_save(entities))
    /\ UNCHANGED <<collectionVars, hash_order, unionVars, personVars, rebuildVars, playerVars, entities, xml_file, loaded_json, loaded_xml>>

LoadJson ==
    /\ loaded_json' =
          [called |-> TRUE, saved |-> json_file.exists,
           out |-> IF json_file.exists THEN JSONFileHandler_load(json_file.text)
                   ELSE Err("FileNotFoundError")]
    /\ UNCHANGED <<collectionVars, hash_order, unionVars, personVars, rebuildVars, playerVars, entities, json_file, xml_file, loaded_xml>>

SaveXml ==
    /\ xml_file' = File(XMLFileHandler_save(entities))
    /\ UNCHANGED <<collectionVars, hash_order, unionVars, personVars, rebuildVars, playerVars, entities, json_file, loaded_json, loaded_xml>>

LoadXml ==
    /\ loaded_xml' =
          [called |-> TRUE, saved |-> xml_file.exists,
           out |-> IF xml_file.exists THEN XMLFileHandler_load(xml_file.text)
                   ELSE Err("FileNotFoundError")]
    /\ UNCHANGED <<collectionVars, hash_order, unionVars, personVars, rebuildVars, playerVars, entities, json_file, xml_file, loaded_json>>

NextCodec ==
    \/ SaveJson
    \/ LoadJson
    \/ SaveXml
    \/ LoadXml

SpecCodec == InitCodec /\ [][NextCodec]_vars

\* C8: after XMLFileHandler.save of any list of objects, XMLFileHandler.load
\* returns as many trees as objects were saved, each exactly equal to the
\* object's serialize(): empty lists, None and empty strings included.
C8_XmlRoundTrip ==
    (loaded_xml.called /\ loaded_xml.saved) =>
        /\ loaded_xml.out.ok
        /\ Len(loaded_xml.out.val.items) = Len(entities)
        /\ \A i \in DOMAIN entities : loaded_xml.out.val.items[i] = Serialize(entities[i])

\* C9: after JSONFileHandler.save of any list of objects, JSONFileHandler.load
\* returns a list of the same length whose i-th tree equals serialize() of
\* the i-th object: integers, booleans, strings, null, dicts and lists alike.
C9_JsonRoundTrip ==
    (loaded_json.called /\ loaded_json.saved) =>
        /\ loaded_json.out.ok
        /\ loaded_json.out.val.k = "list"
        /\ Len(loaded_json.out.val.items) = Len(entities)
        /\ \A i \in DOMAIN entities : loaded_json.out.val.items[i] = Serialize(entities[i])

\* C9 happens: a saved file was loaded that holds a User (a boolean and empty
\* lists) and a Track without album (a null, an integer and strings)
C9_Witness ==
    /\ loaded_json.called
    /\ loaded_json.saved
    /\ Len(entities) = 2
    /\ entities[1].cls = "User"
    /\ entities[2].cls = "Track"
    /\ entities[2].source_id = NoneStr
    /\ loaded_json.out.ok
    /\ Len(loaded_json.out.val.items) = 2

----------------------------------------------------------------------------
(* deserialize(serialize(x)) on the objects of the collection machine.      *)

ContentAttributes(x) ==
    <<x.cls, x.content_id, x.title, x.creator_id, x.source_id, x.collaborator_ids,
      x.genres, x.producer_ids, x.narrator_ids>>

CollectionAttributes(c) ==
    <<c.cls, c.collection_id, c.title, c.creator_id,
      [i \in DOMAIN c.contents |-> ContentAttributes(c.contents[i])],
      c.collaborator_ids, c.genres>>

\* C10: for an Album, Playlist or AudioBook and for every Track and
\* AudioBookChapter, deserialize of its serialize() succeeds and yields an
\* object of the same class with the same id, title, creator id, source id,
\* contents, collaborator_ids, genres, producer_ids and narrator_ids, list
\* members in the same order.
C10_DeserializeSerialize ==
    /\ coll.cls # "Collection" =>
          LET back == ClassDeserialize(coll.cls, CollectionSerialize(coll))
          IN  back.ok /\ CollectionAttributes(back.val) = CollectionAttributes(coll)
    /\ \A r \in Refs :
          LET back == ClassDeserialize(heap[r].cls, ContentSerialize(heap[r]))
          IN  back.ok /\ ContentAttributes(back.val) = ContentAttributes(heap[r])

----------------------------------------------------------------------------
(* The MusicPlayer machine: a player is constructed, with the defaults or   *)
(* with every argument given, and its methods are called in any order;      *)
(* the clock moves between calls.                                           *)

NightPlaylist ==
    Playlist_init("pl", "Night", <<InitHeap["t1"], InitHeap["t2"]>>, "usr", Some(<<"TrackGenre.POP">>))

OnePlaylist ==
    Playlist_init("pl1", "One", <<InitHeap["t1"]>>, "usr", Some(<<"TrackGenre.ROCK">>))

PythonBook ==
    AudioBook_init("abk", "Python", <<InitHeap["ch1"]>>, "art", Some(<<"AudioBookGenre.TECH">>))

NewUser == User_init("usr", "Ann", "ann@example.com", TBool(TRUE), NoneArg, NoneArg, NoneArg, NoneArg, NoneArg)

DemoArtist ==
    Artist_init("art", "Nova", "nova@example.com", Some(<<InitHeap["t1"]>>), Some(<<SomeAlbum>>),
                Some(<<InitHeap["ch1"]>>), Some(<<PythonBook>>), Some(<<InitHeap["t1"]>>))

DemoUser ==
    User_init("usr", "Ann", "ann@example.com", TBool(TRUE), Some(<<OnePlaylist>>),
              Some(<<InitHeap["t1"]>>), Some(<<SomeAlbum>>), Some(<<DemoArtist>>),
              Some(<<PythonBook>>))

\* MusicPlayer(music_player_id, user): every other argument at its default
DefaultPlayer ==
    MusicPlayer_init("mp", NewUser, NoneObj, NoneObj, TBool(FALSE), TFloat(800), 0, TBool(FALSE),
                     "RepeatModeValues.NONE", TInt(1), NoneArg, TNull)

\* the player of the __main__ block, started one second before the clock's origin
DemoPlayer ==
    MusicPlayer_init("mp", DemoUser, InitHeap["t1"], OnePlaylist, TBool(TRUE), TFloat(720), 83000,
                     TBool(TRUE), "RepeatModeValues.ALL", TFloat(1250),
                     Some(<<InitHeap["t1"], InitHeap["ch1"]>>), TFloat(-1000))

Playlists == {NightPlaylist, PythonBook, EmptyPlaylist}
PlayArgs == {NoneObj, InitHeap["t2"]}
VolumeValues == {TFloat(1500), TFloat(-200), TFloat(500), TInt(1), TInt(0)}
SpeedValues == {TInt(0), TFloat(-500), TFloat(2000)}

InitPlayer ==
    /\ heap = InitHeap
    /\ hash_order = CHOOSE h \in HashOrders : TRUE
    /\ coll = New("Collection", <<>>, NoneArg, NoneArg)
    /\ last = [op |-> "__init__", arg |-> 0, ret |-> NoneStr, exc |-> "", again |-> FALSE]
    /\ edits = 0
    /\ UnionIdle
    /\ CodecIdle
    /\ PersonIdle
    /\ RebuildIdle
    /\ player \in {DefaultPlayer, DemoPlayer}
    /\ clock = 0
    /\ player_last = NoCall
    /\ player_calls = 0

\* a call on the player: the object after it and the record of the call
PlayerCall(op, arg, out) ==
    /\ player_calls < MaxCalls
    /\ player_calls' = player_calls + 1
    /\ player' = out.self
    /\ player_last' = [op |-> op, arg |-> arg, exc |-> out.exc]
    /\ UNCHANGED <<collectionVars, hash_order, unionVars, codecVars, personVars, rebuildVars, clock>>

LoadPlaylist == \E playlist \in Playlists : PlayerCall("load_playlist", TNull, load_playlist(player, playlist))

Play == \E track \in PlayArgs : PlayerCall("play", TNull, play(player, track, clock))

Pause == PlayerCall("pause", TNull, pause(player, clock))

Stop == PlayerCall("stop", TNull, stop(player))

NextTrack ==
    \E choice \in 1..MaxLen :
        /\ choice = 1 \/ (/\ player.current_playlist # NoneObj
                          /\ Truthy(player.shuffle_mode)
                          /\ choice <= Len(player.current_playlist.contents))
        /\ PlayerCall("next_track", TInt(choice), next_track(player, choice, clock))

PreviousTrack == PlayerCall("previous_track", TNull, previous_track(player, clock))

SetVolume == \E value \in VolumeValues : PlayerCall("set_volume", value, set_volume(player, value))

ToggleShuffle == PlayerCall("toggle_shuffle_mod", TNull, toggle_shuffle_mod(player))

SetRepeatMode ==
    \E mode \in DOMAIN RepeatModeValues : PlayerCall("set_repeat_mode", TNull, set_repeat_mode(player, mode))

SetPlaybackSpeed ==
    \E speed \in SpeedValues : PlayerCall("set_playback_speed", speed, set_playback_speed(player, speed))

\* one second passes
Tick ==
    /\ player_calls < MaxCalls
    /\ player_calls' = player_calls + 1
    /\ clock' = clock + 1000
    /\ player_last' = [op |-> "time.sleep", arg |-> TNull, exc |-> ""]
    /\ UNCHANGED <<collectionVars, hash_order, unionVars, codecVars, personVars, rebuildVars, player>>

NextPlayer ==
    \/ LoadPlaylist
    \/ Play
    \/ Pause
    \/ Stop
    \/ NextTrack
    \/ PreviousTrack
    \/ SetVolume
    \/ ToggleShuffle
    \/ SetRepeatMode
    \/ SetPlaybackSpeed
    \/ Tick

SpecPlayer == InitPlayer /\ [][NextPlayer]_vars

\* MusicPlayer.deserialize of the one tree a handler loads after saving [p]
ThroughJson(p) ==
    LET loaded == JSONFileHandler_load(JSONFileHandler_save(<<p>>))
    IN  IF ~loaded.ok THEN loaded ELSE MusicPlayer_deserialize(loaded.val.items[1])

ThroughXml(p) ==
    LET loaded == XMLFileHandler_load(XMLFileHandler_save(<<p>>))
    IN  IF ~loaded.ok THEN loaded ELSE MusicPlayer_deserialize(loaded.val.items[1])

Classes(xs) == [i \in DOMAIN xs |-> xs[i].cls]

ListLengths(user) ==
    <<Len(user.playlists), Len(user.favourite_tracks), Len(user.favourite_albums),
      Len(user.favourite_artists), Len(user.favourite_audiobooks)>>

\* q shows what p shows: id, flags, repeat mode, current track and playlist,
\* the sizes of the user's lists, the history's length and classes
SamePlayer(p, q) ==
    /\ q.music_player_id = p.music_player_id
    /\ q.is_playing = p.is_playing
    /\ q.shuffle_mode = p.shuffle_mode
    /\ q.repeat_mode = p.repeat_mode
    /\ q.current_track.content_id = p.current_track.content_id
    /\ q.current_track.title = p.current_track.title
    /\ q.current_playlist.collection_id = p.current_playlist.collection_id
    /\ q.current_playlist.title = p.current_playlist.title
    /\ Len(q.current_playlist.contents) = Len(p.current_playlist.contents)
    /\ ListLengths(q.user) = ListLengths(p.user)
    /\ Classes(q.history) = Classes(p.history)

\* C11: a player that can be saved comes back from either handler, through
\* MusicPlayer.deserialize, with the same id, is_playing, shuffle flag, repeat
\* mode, current track and playlist, as many entries in each list of its user,
\* and a history of the same length with the same classes in the same order.
C11_PlayerRoundTrip ==
    MusicPlayer_serialize(player).ok =>
        /\ ThroughJson(player).ok
        /\ SamePlayer(player, ThroughJson(player).val)
        /\ ThroughXml(player).ok
        /\ SamePlayer(player, ThroughXml(player).val)

\* C20: set_volume(v) stores min(1, max(0, v)) and changes no other field of
\* the player.
C20_SetVolumeClamps ==
    [][(player_calls' # player_calls /\ player_last'.op = "set_volume") =>
          LET v == Milli(player_last'.arg)
          IN  /\ player_last'.exc = ""
              /\ Milli(player'.volume) = (IF v > 1000 THEN 1000 ELSE IF v < 0 THEN 0 ELSE v)
              /\ [player' EXCEPT !.volume = player.volume] = player]_vars

\* C20 happens: set_volume(1.5) was called and the volume is 1.0
C20_Witness ==
    /\ player_last.op = "set_volume"
    /\ Milli(player_last.arg) = 1500
    /\ Milli(player.volume) = 1000

----------------------------------------------------------------------------
(* deserialize on a tree that lacks some of its keys.  A run takes the      *)
(* serialized form of one object, drops a set of keys other than the id,    *)
(* and hands the rest to the deserialize of the object's class.             *)

IdentityKeys == {"id", "music_player_id"}

PlainContent == Content_init("c1", "Intro", 5000, "art", Some(<<"a">>), "alb")
PlainCollection == Collection_init("col", "Mix", <<InitHeap["t1"]>>, "usr", Some(<<"a">>))
PlainPerson == Person_init("per", "Pat", "pat@example.com")

SampleObjects ==
    {InitHeap["t1"], InitHeap["ch1"], PlainContent, SomeAlbum, NightPlaylist, PythonBook,
     PlainCollection, PlainPerson, SomeAdmin, SomeArtist, SomeUser, DemoPlayer}

SampleOf(cls) == CHOOSE obj \in SampleObjects : obj.cls = cls

KeysOf(tree) == {tree.pairs[i][1] : i \in DOMAIN tree.pairs}

\* the dict without the keys in `missing`
Without(tree, missing) == TDict(SelectSeq(tree.pairs, LAMBDA p : p[1] \notin missing))

InitRebuild ==
    /\ heap = InitHeap
    /\ hash_order = CHOOSE h \in HashOrders : TRUE
    /\ coll = New("Collection", <<>>, NoneArg, NoneArg)
    /\ last = [op |-> "__init__", arg |-> 0, ret |-> NoneStr, exc |-> "", again |-> FALSE]
    /\ edits = 0
    /\ UnionIdle
    /\ CodecIdle
    /\ PersonIdle
    /\ PlayerIdle
    /\ \E obj \in SampleObjects :
         \E missing \in SUBSET (KeysOf(Serialize(obj)) \ IdentityKeys) :
            /\ rebuild_cls = obj.cls
            /\ rebuild_tree = Without(Serialize(obj), missing)
    /\ rebuilt = NotCalled

Rebuild ==
    /\ ~rebuilt.called
    /\ rebuilt' = [called |-> TRUE, out |-> Deserialize(rebuild_cls, rebuild_tree)]
    /\ UNCHANGED <<collectionVars, hash_order, unionVars, codecVars, personVars, playerVars, rebuild_cls, rebuild_tree>>

NextRebuild == Rebuild

SpecRebuild == InitRebuild /\ [][NextRebuild]_vars

\* the keys of the class's serialized form that the tree lacks
MissingKeys == KeysOf(Serialize(SampleOf(rebuild_cls))) \ KeysOf(rebuild_tree)

SequenceKeys ==
    {"genres", "collaborator_ids", "producer_ids", "narrator_ids", "contents", "permissions",
     "playlists", "favourite_tracks", "favourite_albums", "favourite_artists",
     "favourite_audiobooks", "tracks", "albums", "collabed_tracks", "collabed_albums",
     "produced_tracks", "history"}

\* the attribute filled from `key` is empty (a sequence) or None (a scalar or
\* a nested object); a timedelta or an Enum member is never None
IsDefault(obj, key) ==
    CASE key \in SequenceKeys -> obj[key] = <<>>
      [] key \in {"title", "creator_id", "source_id", "name", "email"} -> obj[key] = NoneStr
      [] key \in {"subscribed", "is_playing", "volume", "shuffle_mode", "playback_speed",
                  "start_time"} -> obj[key] = TNull
      [] key \in {"user", "current_track", "current_playlist"} -> obj[key] = NoneObj
      [] OTHER -> FALSE

\* C12: deserialize on a tree that lacks any set of non-identity keys returns
\* an object (it does not raise), and in that object every attribute whose
\* key is missing is empty, for a sequence, or None, for a scalar or a nested
\* object.
C12_MissingKeysFallBack ==
    rebuilt.called =>
        /\ rebuilt.out.ok
        /\ \A key \in MissingKeys : IsDefault(rebuilt.out.val, key)

----------------------------------------------------------------------------
(* A User or an Artist and its caller.  The caller constructs the object,   *)
(* assigns attributes, calls add_ methods, reads a list attribute and       *)
(* appends to a list it holds.  A list the caller passed to a constructor   *)
(* (when not empty) or to a setter is the list the object stores; a list    *)
(* read from an attribute is a copy.                                        *)

IdArgs == {"usr", " "}
NameArgs == {"Ann", ""}
EmailArgs == {"a@b.c", "a@b"}
PlaylistsArgs == {NoneArg, Some(<<OnePlaylist>>), Some(<<JunkStr>>)}
TracksArgs == {NoneArg, Some(<<InitHeap["t1"]>>), Some(<<JunkStr>>)}

\* the list the caller still holds after the constructor call
Passed(attr, arg) ==
    IF OrEmpty(arg) = <<>> THEN NoList ELSE HeldList(attr, OrEmpty(arg), TRUE)

InitPerson ==
    /\ heap = InitHeap
    /\ hash_order = CHOOSE h \in HashOrders : TRUE
    /\ coll = New("Collection", <<>>, NoneArg, NoneArg)
    /\ last = [op |-> "__init__", arg |-> 0, ret |-> NoneStr, exc |-> "", again |-> FALSE]
    /\ edits = 0
    /\ UnionIdle
    /\ CodecIdle
    /\ RebuildIdle
    /\ PlayerIdle
    /\ module_globals \in {{}, {"track"}}
    /\ \E id \in IdArgs, name \in NameArgs, email \in EmailArgs :
         \/ \E playlists \in PlaylistsArgs :
              /\ person = User_init(id, name, email, TBool(TRUE), playlists, NoneArg, NoneArg,
                                    NoneArg, NoneArg)
              /\ outside = Passed("playlists", playlists)
         \/ \E tracks \in TracksArgs :
              /\ person = Artist_init(id, name, email, tracks, NoneArg, NoneArg, NoneArg, NoneArg)
              /\ outside = Passed("tracks", tracks)
    /\ person_last = NoCall
    /\ person_calls = 0

\* a call that assigns no list: the list the caller holds follows the stored
\* list when it is that list
PersonCall(op, arg, out) ==
    /\ person_calls < MaxPersonCalls
    /\ person' = out.self
    /\ person_last' = [op |-> op, arg |-> arg, exc |-> out.exc]
    /\ person_calls' = person_calls + 1
    /\ outside' = IF outside.stored THEN [outside EXCEPT !.items = out.self[outside.attr]]
                  ELSE outside
    /\ UNCHANGED <<collectionVars, hash_order, unionVars, codecVars, rebuildVars, playerVars, module_globals>>

\* a setter of a list attribute: the caller holds the list it passed
ListSetterCall(attr, value, out) ==
    /\ person_calls < MaxPersonCalls
    /\ person' = out.self
    /\ person_last' = [op |-> attr, arg |-> value, exc |-> out.exc]
    /\ person_calls' = person_calls + 1
    /\ outside' = HeldList(attr, value, out.exc = "")
    /\ UNCHANGED <<collectionVars, hash_order, unionVars, codecVars, rebuildVars, playerVars, module_globals>>

IdValues == {TStr("other"), TStr(" "), TInt(5)}
NameValues == {TStr("Ann"), TStr(""), TNull}
EmailValues ==
    {TStr("a@b.c"), TStr("a@b"), TStr("a.b@c"), TStr(" a@b.c "), TStr(""), TStr("  "),
     TStr("a@b.c@d"), TStr("a@b@c.d"), TStr("@."), TStr("ab"), TInt(5), TNull}
PlaylistsValues == {<<>>, <<OnePlaylist, NightPlaylist>>, <<OnePlaylist, SomeAlbum>>}
TracksValues == {<<>>, <<InitHeap["t1"], InitHeap["ch1"]>>, <<InitHeap["t1"], JunkStr>>}
PlaylistValues == {OnePlaylist, NightPlaylist, SomeAlbum, JunkStr}
TrackValues == {InitHeap["t1"], InitHeap["ch1"], JunkStr}
AlbumValues == {SomeAlbum, PythonBook, JunkStr}

SetPersonId(value) == PersonCall("person_id", value, person_id_setter(person, value))

SetName(value) == PersonCall("name", value, name_setter(person, value))

SetEmail(value) == PersonCall("email", value, email_setter(person, value))

SetSubscribed(value) ==
    /\ person.cls = "User"
    /\ PersonCall("subscribed", value, subscribed_setter(person, value))

SetPlaylists(value) ==
    /\ person.cls = "User"
    /\ ListSetterCall("playlists", value, playlists_setter(person, value))

SetTracks(value) ==
    /\ person.cls = "Artist"
    /\ ListSetterCall("tracks", value, tracks_setter(person, value))

AddPlaylist(playlist) ==
    /\ person.cls = "User"
    /\ PersonCall("add_playlist", playlist, add_playlist(person, playlist))

AddTrack(track) ==
    /\ person.cls = "Artist"
    /\ PersonCall("add_track", track, add_track(person, track))

AddAlbum(album) ==
    /\ person.cls = "Artist"
    /\ PersonCall("add_album", album, add_album(person, album))

AddCollabedTrack(track) ==
    /\ person.cls = "Artist"
    /\ PersonCall("add_collabed_track", track, add_collabed_track(person, track, module_globals))

\* lst = user.playlists, lst = artist.tracks: the getter returns a copy
ReadList ==
    /\ person_calls < MaxPersonCalls
    /\ LET attr == IF person.cls = "User" THEN "playlists" ELSE "tracks"
       IN  /\ outside' = HeldList(attr, person[attr], FALSE)
           /\ person_last' = [op |-> "get", arg |-> TStr(attr), exc |-> ""]
    /\ person_calls' = person_calls + 1
    /\ UNCHANGED <<collectionVars, hash_order, unionVars, codecVars, rebuildVars, playerVars, module_globals, person>>

\* lst.append(x) on the list the caller holds
OutsideAppend(x) ==
    /\ person_calls < MaxPersonCalls
    /\ outside.attr # NoneStr
    /\ outside' = [outside EXCEPT !.items = Append(@, x)]
    /\ person' = IF outside.stored THEN [person EXCEPT ![outside.attr] = Append(@, x)] ELSE person
    /\ person_last' = [op |-> "list.append", arg |-> x, exc |-> ""]
    /\ person_calls' = person_calls + 1
    /\ UNCHANGED <<collectionVars, hash_order, unionVars, codecVars, rebuildVars, playerVars, module_globals>>

NextPerson ==
    \/ \E value \in IdValues : SetPersonId(value)
    \/ \E value \in NameValues : SetName(value)
    \/ \E value \in EmailValues : SetEmail(value)
    \/ \E value \in {TBool(FALSE), TInt(1)} : SetSubscribed(value)
    \/ \E value \in PlaylistsValues : SetPlaylists(value)
    \/ \E value \in TracksValues : SetTracks(value)
    \/ \E playlist \in PlaylistValues : AddPlaylist(playlist)
    \/ \E track \in TrackValues : AddTrack(track)
    \/ \E album \in AlbumValues : AddAlbum(album)
    \/ \E track \in TrackValues : AddCollabedTrack(track)
    \/ ReadList
    \/ \E x \in {JunkStr} : OutsideAppend(x)

SpecPerson == InitPerson /\ [][NextPerson]_vars

\* some character of the string is not a space
NonBlank(cs) == \E i \in DOMAIN cs : cs[i] # " "

\* the string has a last "@" and a "." somewhere after it
DotAfterLastAt(cs) ==
    \E i \in DOMAIN cs :
        /\ cs[i] = "@"
        /\ \A j \in (i + 1)..Len(cs) : cs[j] # "@"
        /\ \E j \in (i + 1)..Len(cs) : cs[j] = "."

\* every element of every list of a User or an Artist is of the declared type
TypedLists(p) ==
    IF p.cls = "User"
    THEN /\ \A i \in DOMAIN p.playlists : p.playlists[i].cls = "Playlist"
         /\ \A i \in DOMAIN p.favourite_tracks : p.favourite_tracks[i].cls = "Track"
         /\ \A i \in DOMAIN p.favourite_albums : p.favourite_albums[i].cls = "Album"
         /\ \A i \in DOMAIN p.favourite_artists : p.favourite_artists[i].cls = "Artist"
         /\ \A i \in DOMAIN p.favourite_audiobooks : p.favourite_audiobooks[i].cls = "AudioBook"
    ELSE /\ \A i \in DOMAIN p.tracks : p.tracks[i].cls \in {"Track", "AudioBookChapter"}
         /\ \A i \in DOMAIN p.albums : p.albums[i].cls \in {"Album", "AudioBook"}
         /\ \A i \in DOMAIN p.collabed_tracks : p.collabed_tracks[i].cls \in {"Track", "AudioBookChapter"}
         /\ \A i \in DOMAIN p.collabed_albums : p.collabed_albums[i].cls \in {"Album", "AudioBook"}
         /\ \A i \in DOMAIN p.produced_tracks : p.produced_tracks[i].cls \in {"Track", "AudioBookChapter"}

\* the call just made handed a wrong-typed element to a list setter or to an
\* add_ method
WrongTypedCall(call) ==
    CASE call.op = "playlists" -> \E i \in DOMAIN call.arg : call.arg[i].cls # "Playlist"
      [] call.op = "tracks" ->
            \E i \in DOMAIN call.arg : call.arg[i].cls \notin {"Track", "AudioBookChapter"}
      [] call.op = "add_playlist" -> call.arg.cls # "Playlist"
      [] call.op \in {"add_track", "add_collabed_track"} ->
            call.arg.cls \notin {"Track", "AudioBookChapter"}
      [] call.op = "add_album" -> call.arg.cls \notin {"Album", "AudioBook"}
      [] OTHER -> FALSE

\* C13: appending to a list held outside the object (one read from a list
\* attribute, or one passed earlier to the setter or the constructor) leaves
\* the object's stored sequence as it was.
C13_OutsideListIsolated ==
    [][(person_calls' # person_calls /\ person_last'.op = "list.append") =>
          person'[outside.attr] = person[outside.attr]]_vars

\* C14: every stored sequence of a User or an Artist holds only elements of
\* its declared type, in every state reached through constructors, setters
\* and add_ methods; and a setter or add_ call given a wrong-typed element
\* raises InvalidTypeError or InvalidElementTypeError and changes nothing.
C14_SequencesTyped ==
    /\ []TypedLists(person)
    /\ [][(person_calls' # person_calls /\ WrongTypedCall(person_last')) =>
            /\ person_last'.exc \in {"InvalidTypeError", "InvalidElementTypeError"}
            /\ person' = person]_vars

\* C15: a person that a constructor returned has a non-blank id and name, an
\* email with "@" and a "." after it, and only elements of the declared type
\* in its lists: a constructor given anything else raises.
C15_ConstructorsValidate ==
    person_calls = 0 =>
        /\ NonBlank(Chars(person.person_id))
        /\ NonBlank(Chars(person.name))
        /\ DotAfterLastAt(Chars(person.email))
        /\ TypedLists(person)

\* C16: once person_id is a non-blank string, no call on the person changes it.
C16_PersonIdImmutable ==
    [][NonBlank(Chars(person.person_id)) => person'.person_id = person.person_id]_vars

\* C17: an assignment to Person.email succeeds, and stores the value, exactly
\* when the value is a non-blank string with an "@" and with a "." after its
\* last "@"; any other assignment raises DataError or one of its subclasses
\* and leaves the stored email as it was.
C17_EmailAssignment ==
    [][(person_calls' # person_calls /\ person_last'.op = "email") =>
          LET value == person_last'.arg
          IN  IF value.k = "str" /\ NonBlank(Chars(value.s)) /\ DotAfterLastAt(Chars(value.s))
              THEN person_last'.exc = "" /\ person'.email = value.s
              ELSE person_last'.exc \in DataErrors /\ person'.email = person.email]_vars

\* C17 witness: "a@b.c@d" was refused (no "." after the last "@") and the
\* email is still the one given to the constructor.
C17_Witness ==
    /\ person_last.op = "email"
    /\ person_last.arg = TStr("a@b.c@d")
    /\ person_last.exc = "DataError"
    /\ person.email \in EmailArgs

----------------------------------------------------------------------------
(* An Admin created without permissions, and the calls of add_permission,   *)
(* remove_permission and pop_permission on it.                              *)

\* the members of Permission, and a str that is a member's value
PermissionValues == DOMAIN Permission \cup {"view_users"}
PopIndexes == -MaxLen..MaxLen

InitAdmin ==
    /\ heap = InitHeap
    /\ hash_order = CHOOSE h \in HashOrders : TRUE
    /\ coll = New("Collection", <<>>, NoneArg, NoneArg)
    /\ last = [op |-> "__init__", arg |-> 0, ret |-> NoneStr, exc |-> "", again |-> FALSE]
    /\ edits = 0
    /\ UnionIdle
    /\ CodecIdle
    /\ RebuildIdle
    /\ PlayerIdle
    /\ module_globals = {}
    /\ person \in {Admin_init("adm", "Root", "a@b.c", NoneArg),
                   Admin_init("adm", "Root", "a@b.c", Some(<<>>))}
    /\ outside = NoList
    /\ person_last = NoCall
    /\ person_calls = 0

\* a call on the Admin; had: the permission was in the list, or the index was
\* in its range, when the call was made
AdminCall(op, arg, had, out) ==
    /\ person_calls < MaxCalls
    /\ person' = out.self
    /\ person_last' = [op |-> op, arg |-> arg, exc |-> out.exc, had |-> had]
    /\ person_calls' = person_calls + 1
    /\ UNCHANGED <<collectionVars, hash_order, unionVars, codecVars, rebuildVars, playerVars, module_globals, outside>>

AddPermission(permission) ==
    AdminCall("add_permission", permission, permission \in Range(person.permissions),
              add_permission(person, permission))

RemovePermission(permission) ==
    AdminCall("remove_permission", permission, permission \in Range(person.permissions),
              remove_permission(person, permission))

PopPermission(index) ==
    AdminCall("pop_permission", index, PopInRange(person.permissions, index),
              pop_permission(person, index))

NextAdmin ==
    \/ \E permission \in PermissionValues : AddPermission(permission)
    \/ \E permission \in PermissionValues : RemovePermission(permission)
    \/ \E index \in PopIndexes : PopPermission(index)

SpecAdmin == InitAdmin /\ [][NextAdmin]_vars

\* C19: after any sequence of add_permission, remove_permission and
\* pop_permission calls on an Admin created without permissions, no
\* permission is in the list twice; and add_permission of a permission that
\* is in the list leaves the list as it was.
C19_NoDuplicatePermissions ==
    /\ []NoDuplicates(person.permissions)
    /\ [][(person_calls' # person_calls /\ person_last'.op = "add_permission"
              /\ person_last'.arg \in Range(person.permissions)) =>
            person'.permissions = person.permissions]_vars

\* C19 witness: the third call was add_permission of the permission that was
\* already the only one in the list; it is there once.
C19_Witness ==
    /\ person_calls = 3
    /\ person_last.op = "add_permission"
    /\ person_last.had
    /\ person.permissions = <<person_last.arg>>

----------------------------------------------------------------------------
(* Assignments to the duration of the Content objects.                      *)

DurationValues ==
    {TTimedelta(-1), TTimedelta(-5000), TTimedelta(0), TTimedelta(5000), TInt(5), TNull}

InitContent ==
    /\ heap = InitHeap
    /\ hash_order = CHOOSE h \in HashOrders : TRUE
    /\ coll = New("Collection", <<>>, NoneArg, NoneArg)
    /\ last = [op |-> "__init__", arg |-> 0, ret |-> NoneStr, exc |-> "", again |-> FALSE]
    /\ edits = 0
    /\ UnionIdle
    /\ CodecIdle
    /\ OthersIdle

\* heap[r].duration = value
SetDuration(r, value) ==
    /\ edits < MaxCalls
    /\ LET out == duration_setter(heap[r], value)
       IN  /\ heap' = [heap EXCEPT ![r] = out.self]
           /\ last' = [op |-> "Content.duration", ref |-> r, arg |-> value, ret |-> out.ret,
                       exc |-> out.exc]
    /\ edits' = edits + 1
    /\ UNCHANGED <<coll, hash_order, unionVars, codecVars, personVars, rebuildVars, playerVars>>

NextContent == \E r \in Refs, value \in DurationValues : SetDuration(r, value)

SpecContent == InitContent /\ [][NextContent]_vars

\* C18: an assignment of a negative timedelta, or of a value that is not a
\* timedelta, to a Content's duration raises nothing and leaves the duration
\* (and every other object) as it was; an assignment of a timedelta that is
\* not negative makes it the duration.
C18_DurationAssignment ==
    [][(edits' # edits /\ last'.op = "Content.duration") =>
          LET value == last'.arg
              r == last'.ref
          IN  /\ last'.exc = ""
              /\ IF value.k = "timedelta" /\ value.ms >= 0
                 THEN heap' = [heap EXCEPT ![r].duration = value.ms]
                 ELSE heap' = heap]_vars

\* C18 witness: a negative timedelta was assigned to a Content whose duration
\* an earlier assignment had replaced, and the replaced duration is kept.
C18_Witness ==
    /\ last.op = "Content.duration"
    /\ last.arg = TTimedelta(-1)
    /\ last.exc = ""
    /\ heap[last.ref].duration = 5000

-----------------------------------------------------------------------------
(* The volume and the playback speed of a MusicPlayer.  A run starts from a  *)
(* player constructed with some volume and playback_speed, and then calls    *)
(* set_volume, set_playback_speed and MusicPlayer.deserialize.               *)

\* volume and playback_speed arguments of the constructor: the defaults and the setters' values
ConstructedVolumes == VolumeValues \cup {TFloat(800)}
ConstructedSpeeds == SpeedValues \cup {TInt(1)}

\* dict with d[key] = value, for a key of the dict
With(d, key, value) ==
    TDict([i \in DOMAIN d.pairs |-> IF d.pairs[i][1] = key THEN <<key, value>> ELSE d.pairs[i]])

\* the dict that serialize() gives for the player of the __main__ block
SavedPlayer == MusicPlayer_serialize(DemoPlayer).val

InitSettings ==
    /\ heap = InitHeap
    /\ hash_order = CHOOSE h \in HashOrders : TRUE
    /\ coll = New("Collection", <<>>, NoneArg, NoneArg)
    /\ last = [op |-> "__init__", arg |-> 0, ret |-> NoneStr, exc |-> "", again |-> FALSE]
    /\ edits = 0
    /\ UnionIdle
    /\ CodecIdle
    /\ PersonIdle
    /\ RebuildIdle
    /\ \E volume \in ConstructedVolumes, playback_speed \in ConstructedSpeeds :
           player = MusicPlayer_init("mp", NewUser, NoneObj, NoneObj, TBool(FALSE), volume, 0,
                                     TBool(FALSE), "RepeatModeValues.NONE", playback_speed,
                                     NoneArg, TNull)
    /\ clock = 0
    /\ player_last = NoCall
    /\ player_calls = 0

\* player = MusicPlayer.deserialize(data), data a saved player with some volume and speed
DeserializePlayer ==
    \E volume \in ConstructedVolumes, playback_speed \in ConstructedSpeeds :
        LET data == With(With(SavedPlayer, "volume", volume), "playback_speed", playback_speed)
            built == Deserialize("MusicPlayer", data)
        IN  PlayerCall("deserialize", TNull,
                       IF built.ok THEN Returned(built.val, NoneStr) ELSE Raised(player, built.err))

NextSettings ==
    \/ SetVolume
    \/ SetPlaybackSpeed
    \/ DeserializePlayer

SpecSettings == InitSettings /\ [][NextSettings]_vars

\* the volume is a number of [0, 1] and the playback speed a number above 0
VolumeAndSpeedInRange ==
    /\ IsNumber(player.volume)
    /\ Milli(player.volume) >= 0
    /\ Milli(player.volume) <= 1000
    /\ IsNumber(player.playback_speed)
    /\ Milli(player.playback_speed) > 0

\* C21: in every state of a player (after construction with any arguments,
\* after deserialize, after any calls of set_volume and set_playback_speed)
\* the volume is within [0, 1] and the playback speed is above 0, and
\* set_playback_speed(s) with s <= 0 leaves the speed unchanged.
C21_VolumeAndSpeedInRange ==
    /\ []VolumeAndSpeedInRange
    /\ [][(/\ player_calls' # player_calls
           /\ player_last'.op = "set_playback_speed"
           /\ Milli(player_last'.arg) <= 0) => player'.playback_speed = player.playback_speed]_vars

-----------------------------------------------------------------------------
(* Playback.  A run starts from a MusicPlayer constructed with the default   *)
(* arguments and calls load_playlist, play, pause, stop, next_track,         *)
(* previous_track, toggle_shuffle_mod and set_repeat_mode.  The clock stands *)
(* still in this machine.                                                    *)

\* calls made on the player in one run of playback
MaxSteps == 6

\* a playlist where one track occurs at two positions
EchoPlaylist ==
    Playlist_init("pl2", "Echo", <<InitHeap["t1"], InitHeap["t2"], InitHeap["t1"]>>, "usr", NoneArg)

Tracklists == {NightPlaylist, PythonBook, EmptyPlaylist, EchoPlaylist}

InitPlayback ==
    /\ heap = InitHeap
    /\ hash_order = CHOOSE h \in HashOrders : TRUE
    /\ coll = New("Collection", <<>>, NoneArg, NoneArg)
    /\ last = [op |-> "__init__", arg |-> 0, ret |-> NoneStr, exc |-> "", again |-> FALSE]
    /\ edits = 0
    /\ UnionIdle
    /\ CodecIdle
    /\ PersonIdle
    /\ RebuildIdle
    /\ player = DefaultPlayer
    /\ clock = 0
    /\ player_last = NoCall
    /\ player_calls = 0

\* a call on the player; before: the call made before this one
PlaybackCall(op, arg, out) ==
    /\ player_calls < MaxSteps
    /\ player_calls' = player_calls + 1
    /\ player' = out.self
    /\ player_last' = [op |-> op, arg |-> arg, exc |-> out.exc, before |-> player_last.op]
    /\ UNCHANGED <<collectionVars, hash_order, unionVars, codecVars, personVars, rebuildVars, clock>>

\* the positions random.choice(playlist) can pick, from 1; 1 stands in when nothing is picked
Choices(self) ==
    IF self.current_playlist # NoneObj /\ Truthy(self.shuffle_mode)
          /\ self.current_playlist.contents # <<>>
    THEN DOMAIN self.current_playlist.contents
    ELSE {1}

CallLoadPlaylist ==
    \E playlist \in Tracklists : PlaybackCall("load_playlist", TNull, load_playlist(player, playlist))

CallPlay == \E track \in PlayArgs : PlaybackCall("play", TNull, play(player, track, clock))

CallPause == PlaybackCall("pause", TNull, pause(player, clock))

CallStop == PlaybackCall("stop", TNull, stop(player))

CallNextTrack ==
    \E choice \in Choices(player) :
        PlaybackCall("next_track", TInt(choice), next_track(player, choice, clock))

CallPreviousTrack == PlaybackCall("previous_track", TNull, previous_track(player, clock))

CallToggleShuffle == PlaybackCall("toggle_shuffle_mod", TNull, toggle_shuffle_mod(player))

CallSetRepeatMode ==
    \E mode \in DOMAIN RepeatModeValues :
        PlaybackCall("set_repeat_mode", TNull, set_repeat_mode(player, mode))

NextPlayback ==
    \/ CallLoadPlaylist
    \/ CallPlay
    \/ CallPause
    \/ CallStop
    \/ CallNextTrack
    \/ CallPreviousTrack
    \/ CallToggleShuffle
    \/ CallSetRepeatMode

SpecPlayback == InitPlayback /\ [][NextPlayback]_vars

\* the step is a call of the method named op
Called(op) == player_calls' # player_calls /\ player_last'.op = op

\* the player has a playlist with at least one item
Loaded(self) == self.current_playlist # NoneObj /\ self.current_playlist.contents # <<>>

\* the item at the last position of the loaded playlist
LastItem(self) == self.current_playlist.contents[Len(self.current_playlist.contents)]

\* C22: with a non-empty playlist and repeat mode 'none', when the current
\* track is the item at the last position, next_track() (shuffle on or off)
\* stops playback (is_playing false, position zero) and leaves the current
\* track and the history unchanged.
C22_LastTrackStops ==
    [][(/\ Called("next_track")
        /\ Loaded(player)
        /\ player.repeat_mode = "RepeatModeValues.NONE"
        /\ player.current_track = LastItem(player)) =>
          /\ ~Truthy(player'.is_playing)
          /\ player'.current_track_position = 0
          /\ player'.current_track = player.current_track
          /\ player'.history = player.history]_vars

\* the longest history a limit can allow and a run of MaxSteps calls still exceed
HistoryLimit == MaxSteps - 2

\* C23: the history is bounded: there is a fixed limit that the number of
\* history entries never exceeds, after any sequence of load_playlist, play,
\* next_track and previous_track.
C23_HistoryBounded == Len(player.history) <= HistoryLimit

\* C24: next_track() pushes onto the history only when it advances to the next
\* item (the call plays an item and the entry pushed is the track that was
\* current), and with repeat mode 'one' it leaves the history unchanged.
C24_HistoryOnlyOnAdvance ==
    [][Called("next_track") =>
          /\ player'.history # player.history =>
                /\ Truthy(player'.is_playing)
                /\ Len(player'.history) = Len(player.history) + 1
                /\ SubSeq(player'.history, 1, Len(player.history)) = player.history
          /\ player.repeat_mode = "RepeatModeValues.ONE" => player'.history = player.history]_vars

\* C25: with repeat mode 'one' and a non-empty playlist that contains the
\* current track, next_track() leaves the current track unchanged and the
\* player playing, with shuffle on or off and whatever item shuffle picked.
C25_RepeatOneKeepsTrack ==
    [][(/\ Called("next_track")
        /\ Loaded(player)
        /\ player.repeat_mode = "RepeatModeValues.ONE"
        /\ player.current_track \in Range(player.current_playlist.contents)) =>
          /\ player'.current_track = player.current_track
          /\ Truthy(player'.is_playing)]_vars

\* C25 happens: with repeat mode 'one' and shuffle on, next_track() was called,
\* shuffle picked the second item, and the first item is still the current track
C25_Witness ==
    /\ player_last.op = "next_track"
    /\ player_last.arg = TInt(2)
    /\ player.repeat_mode = "RepeatModeValues.ONE"
    /\ Truthy(player.shuffle_mode)
    /\ Loaded(player)
    /\ player.current_track = player.current_playlist.contents[1]
    /\ player.current_playlist.contents[2] # player.current_track
    /\ Truthy(player.is_playing)

\* C28: from a player constructed with the defaults, through any sequence of
\* load_playlist, play, pause, stop, next_track and previous_track, is_playing
\* implies that the current track is set and the start time is set.
C28_PlayingHasTrackAndStart ==
    Truthy(player.is_playing) => player.current_track # NoneObj /\ IsNumber(player.start_time)

\* C28 happens: the player is playing after a call of play, next_track or previous_track
C28_Witness ==
    /\ Truthy(player.is_playing)
    /\ player_last.op \in {"play", "next_track", "previous_track"}
    /\ player.current_track # NoneObj

\* C29: when next_track() is called with a current track that is an item of the
\* non-empty playlist, and the call does not end in the end-of-list stop, a
\* previous_track() that follows directly restores current_track and history.
C29_PreviousUndoesNext ==
    [][(/\ Called("next_track")
        /\ Loaded(player)
        /\ player.current_track \in Range(player.current_playlist.contents)
        /\ Truthy(player'.is_playing)) =>
          LET back == previous_track(player', clock').self
          IN  /\ back.current_track = player.current_track
              /\ back.history = player.history]_vars

\* C29 happens: previous_track() was called directly after a next_track() that moved
\* to another item, and the player plays an item of the playlist again
C29_Witness ==
    /\ player_last.op = "previous_track"
    /\ player_last.before = "next_track"
    /\ Loaded(player)
    /\ player.current_track \in Range(player.current_playlist.contents)
    /\ Truthy(player.is_playing)

-----------------------------------------------------------------------------
(* Skipping to the end of a playlist.  A run starts from a player            *)
(* constructed with the defaults (repeat mode 'none', shuffle off); the      *)
(* caller sets it up with load_playlist, play, pause and stop, and from the  *)
(* first next_track() on calls nothing but next_track().                     *)

\* calls kept for next_track(): one for each position of the longest playlist
SkipReserve == Len(EchoPlaylist.contents)

SetUp ==
    /\ player_calls < MaxSteps - SkipReserve
    /\ player_last.op # "next_track"
    /\ \/ CallLoadPlaylist
       \/ CallPlay
       \/ CallPause
       \/ CallStop

\* the newest entries of a history, as many as the history before the call had
Newest(history, before) ==
    IF Len(history) > Len(before) THEN Tail(history) ELSE history

\* next_track() once the run's calls are counted out: the caller goes on
\* calling, and the machine keeps the newest entries of the history only
\* (next_track never reads the history, so the calls that follow are the same)
SkipOn ==
    /\ player_calls = MaxSteps
    /\ player_last.op = "next_track"
    /\ LET out == next_track(player, 1, clock)
       IN  /\ player' = [out.self EXCEPT !.history = Newest(@, player.history)]
           /\ player_last' = [op |-> "next_track", arg |-> TInt(1), exc |-> out.exc,
                              before |-> "next_track"]
    /\ UNCHANGED <<collectionVars, hash_order, unionVars, codecVars, personVars, rebuildVars,
                   clock, player_calls>>

NextSkip ==
    \/ SetUp
    \/ CallNextTrack
    \/ SkipOn

\* the caller calls next_track() again and again
SpecSkip == InitPlayback /\ [][NextSkip]_vars /\ WF_vars(CallNextTrack) /\ WF_vars(SkipOn)

\* next_track() has ended in the end-of-list stop
EndOfListStop ==
    /\ player_last.op = "next_track"
    /\ ~Truthy(player.is_playing)
    /\ player.current_track_position = 0

\* C26: with repeat mode 'none' and shuffle off, on any non-empty playlist
\* (also one where the same item occurs at several positions), calling
\* next_track() again and again eventually reaches the end-of-list stop.
C26_SkippingReachesEnd == (player_last.op = "next_track" /\ Loaded(player)) ~> EndOfListStop

-----------------------------------------------------------------------------
(* pause().  A run starts from a player constructed with a current track, a  *)
(* playlist and some is_playing, playback_speed, current_track_position and  *)
(* start_time, and calls play, pause, stop and set_playback_speed while time *)
(* passes.                                                                   *)

InitPause ==
    /\ heap = InitHeap
    /\ hash_order = CHOOSE h \in HashOrders : TRUE
    /\ coll = New("Collection", <<>>, NoneArg, NoneArg)
    /\ last = [op |-> "__init__", arg |-> 0, ret |-> NoneStr, exc |-> "", again |-> FALSE]
    /\ edits = 0
    /\ UnionIdle
    /\ CodecIdle
    /\ PersonIdle
    /\ RebuildIdle
    /\ \E is_playing \in BOOLEAN, playback_speed \in ConstructedSpeeds,
          current_track_position \in {0, 83000}, start_time \in {TNull, TFloat(-1000)} :
           player = MusicPlayer_init("mp", NewUser, InitHeap["t1"], OnePlaylist, TBool(is_playing),
                                     TFloat(800), current_track_position, TBool(FALSE),
                                     "RepeatModeValues.NONE", playback_speed,
                                     Some(<<InitHeap["t2"]>>), start_time)
    /\ clock = 0
    /\ player_last = NoCall
    /\ player_calls = 0

NextPause ==
    \/ Play
    \/ Pause
    \/ Stop
    \/ SetPlaybackSpeed
    \/ Tick

SpecPause == InitPause /\ [][NextPause]_vars

\* C27: pause() takes effect only from playing: when is_playing is false it
\* leaves every field unchanged; when is_playing is true it sets is_playing to
\* false, does not decrease the position, and leaves the current track, the
\* playlist and the history unchanged.
C27_PauseOnlyFromPlaying ==
    [][Called("pause") =>
          IF ~Truthy(player.is_playing) THEN player' = player
          ELSE /\ ~Truthy(player'.is_playing)
               /\ player'.current_track_position >= player.current_track_position
               /\ player'.current_track = player.current_track
               /\ player'.current_playlist = player.current_playlist
               /\ player'.history = player.history]_vars

-----------------------------------------------------------------------------
(* The favourite artists and audiobooks of a User.  A run starts from a User *)
(* constructed with some favourite_artists and favourite_audiobooks and      *)
(* calls the add_ and pop_ methods of the two lists.                         *)

DraftBook == AudioBook_init("abk2", "Draft", <<>>, "art", NoneArg)

FavouriteArtistsArgs == {NoneArg, Some(<<DemoArtist>>)}
FavouriteAudiobooksArgs == {NoneArg, Some(<<PythonBook>>), Some(<<PythonBook, DraftBook>>)}

InitFavourites ==
    /\ heap = InitHeap
    /\ hash_order = CHOOSE h \in HashOrders : TRUE
    /\ coll = New("Collection", <<>>, NoneArg, NoneArg)
    /\ last = [op |-> "__init__", arg |-> 0, ret |-> NoneStr, exc |-> "", again |-> FALSE]
    /\ edits = 0
    /\ UnionIdle
    /\ CodecIdle
    /\ RebuildIdle
    /\ PlayerIdle
    /\ module_globals = {}
    /\ \E favourite_artists \in FavouriteArtistsArgs, favourite_audiobooks \in FavouriteAudiobooksArgs :
           person = User_init("usr", "Ann", "ann@example.com", TBool(TRUE), NoneArg, NoneArg,
                              NoneArg, favourite_artists, favourite_audiobooks)
    /\ outside = NoList
    /\ person_last = NoCall
    /\ person_calls = 0

\* a call on the user: the object after it, and the call with what it returned
UserCall(op, arg, out) ==
    /\ person_calls < MaxCalls
    /\ person_calls' = person_calls + 1
    /\ person' = out.self
    /\ person_last' = [op |-> op, arg |-> arg, exc |-> out.exc, ret |-> out.ret]
    /\ UNCHANGED <<collectionVars, hash_order, unionVars, codecVars, rebuildVars, playerVars,
                   module_globals, outside>>

AddFavouriteArtist ==
    \E favourite_artist \in {DemoArtist, JunkStr} :
        UserCall("add_favourite_artist", TNull, add_favourite_artist(person, favourite_artist))

PopFavouriteArtist ==
    \E index \in PopIndexes :
        UserCall("pop_favourite_artist", TInt(index), pop_favourite_artist(person, index))

AddFavouriteAudiobook ==
    \E favourite_audiobook \in {PythonBook, DraftBook, JunkStr} :
        UserCall("add_favourite_audiobook", TNull,
                 add_favourite_audiobook(person, favourite_audiobook))

PopFavouriteAudiobook ==
    \E index \in PopIndexes :
        UserCall("pop_favourite_audiobook", TInt(index), pop_favourite_audiobook(person, index))

NextFavourites ==
    \/ AddFavouriteArtist
    \/ PopFavouriteArtist
    \/ AddFavouriteAudiobook
    \/ PopFavouriteAudiobook

SpecFavourites == InitFavourites /\ [][NextFavourites]_vars

\* C30: pop_favourite_audiobook(index) with an index in range of a non-empty
\* favourite_audiobooks removes the element at that index and returns it,
\* whatever the user's other lists hold; on an empty list it returns nothing
\* and changes nothing.
C30_PopFavouriteAudiobook ==
    [][(person_calls' # person_calls /\ person_last'.op = "pop_favourite_audiobook") =>
          LET books == person.favourite_audiobooks
              index == person_last'.arg.n
          IN  /\ person_last'.exc = ""
              /\ books = <<>> => person' = person /\ person_last'.ret = NoneObj
              /\ books # <<>> /\ PopInRange(books, index) =>
                    /\ person_last'.ret = books[PopPos(books, index)]
                    /\ person' = [person EXCEPT
                                     !.favourite_audiobooks = RemoveAt(books, PopPos(books, index))]]_vars

====
